---- MODULE Spec2Model ----
(***************************************************************************)
(* A model of the Wisp server connection engine of wisprtc:               *)
(* src/server/server/connection.ts (ServerConnection, ServerStream), the   *)
(* carrier adapter AsyncRTCDataChannel (src/server/extensions.ts), the     *)
(* packet codec (src/server/packet.ts), the destination policy             *)
(* (src/server/server/filter.ts) and the destination sockets               *)
(* (src/server/server/net.ts).                                             *)
(*                                                                         *)
(* Every `await` of the source is a scheduling point: the code up to an    *)
(* await is one atomic step, the code after it a later step.               *)
(***************************************************************************)
EXTENDS Integers, Sequences, FiniteSets, TLC

(***************************************************************************)
(* Bounds of the model.                                                    *)
(***************************************************************************)
\* ServerStream objects one connection creates (CONNECT packets routed)
MaxStreams == 2
\* messages the client puts on the carrier
MaxMsgs == 3
\* chunks one destination socket produces
MaxChunks == 1
\* failures of channel.send on an open channel
MaxFaults == 1
\* flow control: messages of a client that fills the buffer (one CONNECT and
\* the DATA packets), chunks its destination takes before it stalls, chunks
\* the destination of a paced client takes, chunks a paced client keeps
\* buffered
MaxFlowMsgs == 195
MaxFlowSends == 64
MaxPacedSends == 130
PacedWindow == 2

(***************************************************************************)
(* Program constants.                                                      *)
(***************************************************************************)
\* ServerStream.buffer_size
buffer_size == 128
\* WispPacket.min_size
min_size == 5

\* packet types (static type of each payload class)
T_CONNECT == 1
T_DATA == 2
T_CONTINUE == 3
T_CLOSE == 4
T_INFO == 5

\* stream_types
TCP == 1
UDP == 2

\* close_reasons
Voluntary == 2
NetworkError == 3
InvalidInfo == 65
HostBlocked == 72
ConnThrottled == 73
ClientError == 129

\* JavaScript null (a reason that was not supplied, an absent table entry)
Null == -1

(***************************************************************************)
(* WispBuffer: a buffer is a sequence of bytes.                            *)
(***************************************************************************)
RECURSIVE Pow256(_)
Pow256(n) == IF n = 0 THEN 1 ELSE 256 * Pow256(n - 1)

\* the most significant byte first (faulty variant)
setUint_be(width, v) == [i \in 1..width |-> (v \div Pow256(width - i)) % 256]

\* DataView.setUint8 / setUint16 / setUint32 (little-endian): the value is
\* reduced modulo the width
setUint(width, v) == [i \in 1..width |-> (v \div Pow256(i - 1)) % 256]

\* DataView.getUint8 / getUint16 / getUint32 (little-endian) at a 0-based offset
RECURSIVE getUint(_, _, _)
getUint(b, off, width) ==
  IF width = 0 THEN 0
  ELSE b[off + 1] + 256 * getUint(b, off + 1, width - 1)

\* WispBuffer.slice(index): the bytes from the 0-based index to the end
slice(b, index) == IF index >= Len(b) THEN <<>> ELSE SubSeq(b, index + 1, Len(b))
\* WispBuffer.slice(index, size): bytes.slice(index, size), whose second
\* argument is the end index, clamped to the length
slice_to(b, index, end) ==
  LET e == IF end > Len(b) THEN Len(b) ELSE end
  IN IF index >= e THEN <<>> ELSE SubSeq(b, index + 1, e)

\* String.prototype.trim: the WhiteSpace and LineTerminator code points of
\* ECMAScript are stripped at both ends (TAB, LF, VT, FF, CR, SP, NBSP,
\* U+1680, U+2000..U+200A, LS, PS, U+202F, U+205F, U+3000, U+FEFF)
IsSpace(c) ==
  \/ c \in {9, 10, 11, 12, 13, 32, 160, 5760}
  \/ c \in 8192..8202
  \/ c \in {8232, 8233, 8239, 8287, 12288, 65279}
RECURSIVE trim(_)
trim(s) ==
  IF s = <<>> THEN s
  ELSE IF IsSpace(Head(s)) THEN trim(Tail(s))
  ELSE IF IsSpace(s[Len(s)]) THEN trim(SubSeq(s, 1, Len(s) - 1))
  ELSE s

(***************************************************************************)
(* Payload classes and WispPacket (src/server/packet.ts).                  *)
(***************************************************************************)
(***************************************************************************)
(* encode_text / decode_text: TextEncoder and TextDecoder, UTF-8.  A string *)
(* is the sequence of its code points; a value in 55296..57343 stands for   *)
(* a surrogate without its partner.                                         *)
(***************************************************************************)
utf8_bytes(c) ==
  IF c < 128 THEN <<c>>
  ELSE IF c < 2048 THEN <<192 + (c \div 64), 128 + (c % 64)>>
  ELSE IF c \in 55296..57343 THEN <<239, 191, 189>>
  ELSE IF c < 65536
  THEN <<224 + (c \div 4096), 128 + ((c \div 64) % 64), 128 + (c % 64)>>
  ELSE <<240 + (c \div 262144), 128 + ((c \div 4096) % 64), 128 + ((c \div 64) % 64),
         128 + (c % 64)>>

RECURSIVE encode_text(_)
encode_text(s) == IF s = <<>> THEN <<>> ELSE utf8_bytes(Head(s)) \o encode_text(Tail(s))

\* the length of the sequence a lead byte announces, 0 for a byte that
\* cannot lead
utf8_needed(b1) ==
  IF b1 < 128 THEN 1
  ELSE IF b1 \in 194..223 THEN 2
  ELSE IF b1 \in 224..239 THEN 3
  ELSE IF b1 \in 240..244 THEN 4
  ELSE 0

\* byte k of a sequence led by b1 is in range
utf8_fits(b1, k, x) ==
  IF k = 2
  THEN x >= (IF b1 = 224 THEN 160 ELSE IF b1 = 240 THEN 144 ELSE 128)
         /\ x <= (IF b1 = 237 THEN 159 ELSE IF b1 = 244 THEN 143 ELSE 191)
  ELSE x \in 128..191

\* how many bytes at the head of b form the start of one sequence
utf8_matched(b) ==
  LET n == utf8_needed(b[1])
      m == IF n < Len(b) THEN n ELSE Len(b)
  IN IF n = 0 THEN 0
     ELSE CHOOSE k \in 1..m :
            /\ \A i \in 2..k : utf8_fits(b[1], i, b[i])
            /\ k < m => ~utf8_fits(b[1], k + 1, b[k + 1])

utf8_code_point(b, n) ==
  CASE n = 1 -> b[1]
    [] n = 2 -> (b[1] - 192) * 64 + (b[2] - 128)
    [] n = 3 -> (b[1] - 224) * 4096 + (b[2] - 128) * 64 + (b[3] - 128)
    [] n = 4 -> (b[1] - 240) * 262144 + (b[2] - 128) * 4096 + (b[3] - 128) * 64 + (b[4] - 128)

\* a complete sequence gives its code point; anything else gives U+FFFD for
\* the bytes that started a sequence
RECURSIVE utf8_decode(_)
utf8_decode(b) ==
  IF b = <<>> THEN <<>>
  ELSE LET n == utf8_needed(b[1])
           k == utf8_matched(b)
       IN IF n > 0 /\ k = n
          THEN <<utf8_code_point(b, n)>> \o utf8_decode(SubSeq(b, n + 1, Len(b)))
          ELSE <<65533>> \o utf8_decode(SubSeq(b, (IF k = 0 THEN 1 ELSE k) + 1, Len(b)))

\* new TextDecoder().decode: a byte order mark at the start is dropped
decode_text(b) ==
  LET s == utf8_decode(b) IN IF s # <<>> /\ s[1] = 65279 THEN Tail(s) ELSE s

ConnectPayload_serialize(p) ==
  setUint(1, p.stream_type) \o setUint(2, p.port) \o encode_text(p.hostname)
ConnectPayload_parse(b) ==
  [stream_type |-> getUint(b, 0, 1), port |-> getUint(b, 1, 2),
   hostname |-> decode_text(slice(b, 3))]

DataPayload_serialize(p) == p.data
DataPayload_parse(b) == [data |-> b]

ContinuePayload_serialize(p) == setUint(4, p.buffer_remaining)
ContinuePayload_parse(b) == [buffer_remaining |-> getUint(b, 0, 4)]

ClosePayload_serialize(p) == setUint(1, p.reason)
ClosePayload_parse(b) == [reason |-> getUint(b, 0, 1)]

InfoPayload_serialize(p) == setUint(1, p.major_ver) \o setUint(1, p.minor_ver) \o p.extensions
InfoPayload_parse(b) ==
  [major_ver |-> getUint(b, 0, 1), minor_ver |-> getUint(b, 1, 1), extensions |-> slice(b, 2)]

\* packet_classes: the types that have a payload class
packet_classes == {T_CONNECT, T_DATA, T_CONTINUE, T_CLOSE, T_INFO}

\* the static min_size of each payload class
payload_min_size(type) ==
  CASE type = T_CONNECT -> 3
    [] type = T_DATA -> 0
    [] type = T_CONTINUE -> 4
    [] type = T_CLOSE -> 1
    [] type = T_INFO -> 2

payload_serialize(type, p) ==
  CASE type = T_CONNECT -> ConnectPayload_serialize(p)
    [] type = T_DATA -> DataPayload_serialize(p)
    [] type = T_CONTINUE -> ContinuePayload_serialize(p)
    [] type = T_CLOSE -> ClosePayload_serialize(p)
    [] type = T_INFO -> InfoPayload_serialize(p)

payload_parse(type, b) ==
  CASE type = T_CONNECT -> ConnectPayload_parse(b)
    [] type = T_DATA -> DataPayload_parse(b)
    [] type = T_CONTINUE -> ContinuePayload_parse(b)
    [] type = T_CLOSE -> ClosePayload_parse(b)
    [] type = T_INFO -> InfoPayload_parse(b)

\* WispPacket.serialize
WispPacket_serialize(pkt) ==
  setUint(1, pkt.type) \o setUint(4, pkt.stream_id) \o payload_serialize(pkt.type, pkt.payload)

\* WispPacket.parse_all: the parsed packet, or ok = FALSE where the code throws
WispPacket_parse_all(b) ==
  IF Len(b) < min_size THEN [ok |-> FALSE, error |-> "packet too small"]
  ELSE LET type == getUint(b, 0, 1)
           stream_id == getUint(b, 1, 4)
           payload_bytes == slice(b, 5)
       IN IF type \notin packet_classes THEN [ok |-> FALSE, error |-> "invalid packet type"]
          ELSE IF Len(payload_bytes) < payload_min_size(type)
          THEN [ok |-> FALSE, error |-> "payload too small"]
          ELSE [ok |-> TRUE, type |-> type, stream_id |-> stream_id,
                payload |-> payload_parse(type, payload_bytes)]

\* the packets the server builds
ClosePacket(sid, reason) ==
  WispPacket_serialize([type |-> T_CLOSE, stream_id |-> sid, payload |-> [reason |-> reason]])
DataPacket(sid, data) ==
  WispPacket_serialize([type |-> T_DATA, stream_id |-> sid, payload |-> [data |-> data]])
ContinuePacket(sid, n) ==
  WispPacket_serialize([type |-> T_CONTINUE, stream_id |-> sid,
                        payload |-> [buffer_remaining |-> n]])
InfoPacket(major, exts) ==
  WispPacket_serialize([type |-> T_INFO, stream_id |-> 0,
                        payload |-> [major_ver |-> major, minor_ver |-> 0, extensions |-> exts]])

(***************************************************************************)
(* Extension records (src/server/extensions.ts).                           *)
(***************************************************************************)
\* UDPExtension.id, MOTDExtension.id
UDP_EXT == 1
MOTD_EXT == 4

\* BaseExtension.serialize: the id, the payload size (u32 LE), the payload
BaseExtension_serialize(id, payload) == setUint(1, id) \o setUint(4, Len(payload)) \o payload

\* BaseExtension.serialize of an extension with an empty payload
Extension_serialize(id) == BaseExtension_serialize(id, <<>>)

\* parse_extensions: the ids of the records of payload_buffer that are in
\* valid_extensions, in order; ok = FALSE where a DataView read is out of range.
\* slice() clamps, so a declared length beyond the buffer ends the loop.
RECURSIVE parse_extensions(_, _)
parse_extensions(payload_buffer, valid_extensions) ==
  IF Len(payload_buffer) = 0 THEN [ok |-> TRUE, ids |-> <<>>, payloads |-> <<>>]
  ELSE IF Len(payload_buffer) < 5 THEN [ok |-> FALSE, ids |-> <<>>, payloads |-> <<>>]
  ELSE LET ext_id == getUint(payload_buffer, 0, 1)
           ext_len == getUint(payload_buffer, 1, 4)
           ext_payload == slice_to(payload_buffer, 0, 5 + ext_len)
           rest == parse_extensions(slice(payload_buffer, 5 + ext_len), valid_extensions)
       IN IF ~rest.ok THEN rest
          ELSE IF ext_id \in valid_extensions
          THEN [ok |-> TRUE, ids |-> <<ext_id>> \o rest.ids,
                payloads |-> <<slice(ext_payload, 5)>> \o rest.payloads]
          ELSE rest

(***************************************************************************)
(* The inputs of the model.                                                *)
(***************************************************************************)
\* stream identifiers the client uses
StreamIds == {1, 2}
\* the keys the stream table is looked at for: these ids, and the id 0 of
\* the connection-level packets
TableIds == {0} \cup StreamIds

\* hostnames, as ASCII bytes: "a" is a DNS name, "::1" a literal address
HostA == <<97>>
HostLoop == <<58, 58, 49>>
\* "1.1.1.1", a public address the resolver may answer for a name
AddrA == <<49, 46, 49, 46, 49, 46, 49>>
Hostnames == {HostA, HostLoop}

\* the options records a server process may run with (defaults of
\* src/server/compat.ts, and one with a total stream limit); wisp_motd is
\* the bytes of the message, empty when it is null
\* a list option: null, or an array of entries (an empty array is configured)
NoList == [configured |-> FALSE, entries |-> <<>>]
ListOf(entries) == [configured |-> TRUE, entries |-> entries]

DefaultOptions ==
  [hostname_blacklist |-> NoList, hostname_whitelist |-> NoList,
   port_blacklist |-> NoList, port_whitelist |-> NoList,
   allow_direct_ip |-> TRUE, allow_private_ips |-> FALSE, allow_loopback_ips |-> FALSE,
   stream_limit_per_host |-> -1, stream_limit_total |-> -1,
   allow_udp_streams |-> TRUE, allow_tcp_streams |-> TRUE,
   dns_ttl |-> 120,
   wisp_motd |-> <<>>]
OptionsSet == {DefaultOptions, [DefaultOptions EXCEPT !.stream_limit_total = 2]}

\* the messages a client may put on the carrier; a DATA payload is the
\* number of the message, so that chunks are told apart
ConnectMsgs ==
  {WispPacket_serialize([type |-> T_CONNECT, stream_id |-> sid,
                         payload |-> [stream_type |-> TCP, port |-> 80, hostname |-> h]]) :
     sid \in StreamIds, h \in Hostnames}
DataMsg(sid, k) == DataPacket(sid, <<k>>)
CloseMsgs == {ClosePacket(sid, Voluntary) : sid \in StreamIds}
\* well-formed packets only a server sends: CONTINUE (for a stream, for the
\* connection) and INFO
DroppedMsgs ==
  {ContinuePacket(1, 0), ContinuePacket(0, 1), InfoPacket(2, Extension_serialize(UDP_EXT))}
\* messages that do not parse: an unknown type, three bytes, and a CONNECT,
\* a CONTINUE, a CLOSE and an INFO whose payload is one byte short
MalformedMsgs ==
  {<<9, 1, 0, 0, 0>>, <<2, 1, 0>>, <<1, 1, 0, 0, 0, 1, 80>>, <<3, 1, 0, 0, 0, 0, 0, 0>>,
   <<4, 1, 0, 0, 0>>, <<5, 0, 0, 0, 0, 2>>}
OtherMsgs == DroppedMsgs \cup MalformedMsgs

\* what the client may answer the server's INFO with
HandshakeMsgs ==
  {InfoPacket(2, <<>>), InfoPacket(2, Extension_serialize(UDP_EXT)),
   ContinuePacket(1, 0), <<9, 1, 0, 0, 0>>}

IsConnectMsg(m) == Len(m) >= 1 /\ m[1] = T_CONNECT

(***************************************************************************)
(* State.                                                                  *)
(***************************************************************************)
VARIABLES
  options,       \* the process-wide options record
  wisp_version,  \* ServerConnection.wisp_version
  chan,          \* RTCDataChannel.readyState: "connecting", "open", "closed"
  connected,     \* AsyncRTCDataChannel.connected
  ws_closed,     \* AsyncRTCDataChannel._closed
  sent,          \* the messages handed to channel.send, in order
  sent_by,       \* for each of them the stream object that sent it (0: setup())
  conn_pc,       \* where setup() / run() / cleanup() of the connection stands
  node_process,  \* the Node process: "up", "doomed" (an error nobody handles
                 \* is due), "exited"
  streams,       \* ServerConnection.streams: stream id -> index in objs, 0 if absent
  objs,          \* the ServerStream objects created so far, with their tasks
  calls,         \* the close_stream() invocations suspended in `await ws.send`
  server_exts,   \* ServerConnection.server_exts (its keys)
  client_exts,   \* ServerConnection.client_exts (its keys)
  nmsgs,         \* messages the client has sent
  faults,        \* failures of channel.send injected so far
  client,        \* the client's side of flow control: its kind, its credit
                 \* for the stream it writes to, the server messages it read
  input,         \* the arguments a function is applied to
  output,        \* what the function returned for them
  rtc,           \* an AsyncRTCDataChannel with its channel and its callers
  dns,           \* the DNS cache of net.ts and the clock it reads
  requestQueue   \* the RequestQueue of the client transport and its tasks

\* the components that are examined on their own
compVars == <<input, output, rtc, dns, requestQueue>>

vars == <<options, wisp_version, chan, connected, ws_closed, sent, sent_by, conn_pc, node_process,
          streams, objs, calls, server_exts, client_exts, nmsgs, faults, client,
          input, output, rtc, dns, requestQueue>>

\* new ServerStream(stream_id, conn, socket) with its socket, the positions of
\* its background task (setup_pc) and of its pumps (t2w_pc, w2t_pc), the
\* chunk ws_to_tcp has handed to socket.send and not yet seen written, and a
\* record of what happened to it: the policy's answer, a failed connect, a
\* channel.send that threw under its pump or its close() (send_failed), the
\* path that closed it first (cause) and the stream whose task did (closer),
\* whether close() was called again (reclosed), the calls of socket.close()
NewStream(stream_id, type, hostname, port) ==
  [stream_id |-> stream_id, type |-> type, hostname |-> hostname, port |-> port,
   closed |-> FALSE, packets_sent |-> 0,
   buf |-> <<>>, buf_ended |-> FALSE, writing |-> <<>>,
   sock |-> "none", rx |-> 0, delivered |-> <<>>,
   setup_pc |-> "policy", t2w_pc |-> "idle", w2t_pc |-> "idle",
   policy |-> Null, connect_failed |-> FALSE,
   send_failed |-> FALSE, cause |-> "none", closer |-> 0, reclosed |-> FALSE, sock_closes |-> 0]

Objs == 1..Len(objs)

\* ServerConnection constructor and add_extensions: the advertised extension
\* ids, UDP when UDP streams are allowed and MOTD when a message is configured
wisp_extensions ==
  (IF options.allow_udp_streams THEN <<UDP_EXT>> ELSE <<>>) \o
  (IF options.wisp_motd # <<>> THEN <<MOTD_EXT>> ELSE <<>>)

\* the payload a server-side extension serializes: the message of MOTD,
\* nothing for the others
server_payload(id) == IF id = MOTD_EXT THEN options.wisp_motd ELSE <<>>

RECURSIVE serialize_extensions(_)
serialize_extensions(exts) ==
  IF exts = <<>> THEN <<>>
  ELSE BaseExtension_serialize(Head(exts), server_payload(Head(exts)))
         \o serialize_extensions(Tail(exts))

\* a client that sends whatever it likes and keeps no account of credit
AnyClient == [kind |-> "any", credit |-> buffer_size, seen |-> 0]

\* no function is being applied, no adapter and no cache are looked at
ComponentsIdle ==
  /\ input = <<>>
  /\ output = <<>>
  /\ rtc = <<>>
  /\ dns = <<>>
  /\ requestQueue = <<>>

\* the options record and the protocol version of a connection: both
\* versions under the defaults, version 2 under the stream limit
Configurations ==
  {<<o, v>> : o \in OptionsSet, v \in {1, 2}} \ {<<[DefaultOptions EXCEPT !.stream_limit_total = 2], 1>>}

Init ==
  /\ \E cfg \in Configurations : options = cfg[1] /\ wisp_version = cfg[2]
  /\ chan = "connecting"
  /\ connected = FALSE
  /\ ws_closed = FALSE
  /\ sent = <<>>
  /\ sent_by = <<>>
  /\ conn_pc = "connect"
  /\ node_process = "up"
  /\ streams = [sid \in TableIds |-> 0]
  /\ objs = <<>>
  /\ calls = {}
  /\ server_exts = {}
  /\ client_exts = {}
  /\ nmsgs = 0
  /\ faults = 0
  /\ client = AnyClient
  /\ ComponentsIdle

(***************************************************************************)
(* Destination policy (src/server/server/filter.ts).                       *)
(***************************************************************************)
\* RegExp.test of a literal pattern: the pattern occurs in the hostname
regex_test(entry, hostname) ==
  \E i \in 1..(Len(hostname) - Len(entry) + 1) :
    SubSeq(hostname, i, i + Len(entry) - 1) = entry

\* a range that leaves out its upper end (faulty variant)
check_port_range_open(entry, port) ==
  IF Len(entry) = 2 THEN entry[1] <= port /\ entry[2] > port ELSE entry[1] = port

\* a port entry is <<port>> or the inclusive range <<lo, hi>>
check_port_range(entry, port) ==
  IF Len(entry) = 2 THEN entry[1] <= port /\ entry[2] >= port ELSE entry[1] = port

\* check_whitelist: TRUE (blocked) when no entry matches
check_whitelist_host(entries, hostname) ==
  ~ \E i \in 1..Len(entries) : regex_test(entries[i], hostname)
check_whitelist_port(entries, port) ==
  ~ \E i \in 1..Len(entries) : check_port_range(entries[i], port)
\* check_blacklist: TRUE (blocked) when some entry matches
check_blacklist_host(entries, hostname) ==
  \E i \in 1..Len(entries) : regex_test(entries[i], hostname)
check_blacklist_port(entries, port) ==
  \E i \in 1..Len(entries) : check_port_range(entries[i], port)

\* ipaddr.isValid and ipaddr.parse(..).range() on the addresses of the model
ipaddr_isValid(s) == s \in {HostLoop, AddrA}
ipaddr_range(s) == IF s = HostLoop THEN "loopback" ELSE "unicast"

\* what the resolver (the cache, else perform_lookup) may answer for a name:
\* a public address, a loopback address, or no address (the lookup throws)
NoAddress == <<>>
Answers == {NoAddress, AddrA, HostLoop}
\* for an address there is nothing to resolve
Resolutions(hostname) == IF ipaddr_isValid(hostname) THEN {hostname} ELSE Answers

\* net.lookup_ip on Node: an IP address is returned as it is, for a name
\* the address the resolver answered
lookup_ip(hostname, answer) == IF ipaddr_isValid(hostname) THEN hostname ELSE answer

is_ip_blocked(ip_str) ==
  IF ~ipaddr_isValid(ip_str) THEN FALSE
  ELSE \/ ~options.allow_loopback_ips /\ ipaddr_range(ip_str) \in {"loopback", "unspecified"}
       \/ ~options.allow_private_ips /\
            ipaddr_range(ip_str) \in {"broadcast", "linkLocal", "carrierGradeNat",
                                      "private", "reserved"}

\* Object.keys(connection.streams).length
StreamCount == Cardinality({sid \in TableIds : streams[sid] # 0})
\* the streams of the table whose socket.hostname is the requested one
StreamsPerHost(hostname) ==
  Cardinality({sid \in TableIds : streams[sid] # 0 /\ objs[streams[sid]].hostname = hostname})

\* is_stream_allowed: the close reason, or 0 when the stream is allowed.
\* answer is what the resolver answers lookup_ip; when the lookup throws
\* (NoAddress), the catch leaves the hostname itself as the address to
\* classify.
is_stream_allowed(type, hostname, port, answer) ==
  IF ~options.allow_tcp_streams /\ type = TCP THEN HostBlocked
  ELSE IF ~options.allow_udp_streams /\ type = UDP THEN HostBlocked
  ELSE IF options.hostname_whitelist.configured /\
          check_whitelist_host(options.hostname_whitelist.entries, hostname)
  THEN HostBlocked
  ELSE IF ~options.hostname_whitelist.configured /\ options.hostname_blacklist.configured /\
          check_blacklist_host(options.hostname_blacklist.entries, hostname)
  THEN HostBlocked
  ELSE IF options.port_whitelist.configured /\
          check_whitelist_port(options.port_whitelist.entries, port)
  THEN HostBlocked
  ELSE IF ~options.port_whitelist.configured /\ options.port_blacklist.configured /\
          check_blacklist_port(options.port_blacklist.entries, port)
  THEN HostBlocked
  ELSE IF ipaddr_isValid(hostname) /\ ~options.allow_direct_ip THEN HostBlocked
  ELSE IF is_ip_blocked(IF ipaddr_isValid(hostname) \/ answer = NoAddress THEN hostname
                        ELSE lookup_ip(hostname, answer)) THEN HostBlocked
  ELSE IF options.stream_limit_total # -1 /\ StreamCount >= options.stream_limit_total
  THEN ConnThrottled
  ELSE IF options.stream_limit_per_host # -1 /\
          StreamsPerHost(hostname) >= options.stream_limit_per_host THEN ConnThrottled
  ELSE 0

(***************************************************************************)
(* The carrier adapter (AsyncRTCDataChannel, src/server/extensions.ts).    *)
(***************************************************************************)
\* The outcomes of AsyncRTCDataChannel.send: the guard of send() and
\* channel.send throw on a channel that is not open; on an open channel
\* channel.send may throw as well (an injected failure).
SendOutcomes ==
  IF chan # "open" THEN {"throw"}
  ELSE IF faults < MaxFaults THEN {"ok", "throw"} ELSE {"ok"}

\* the injected failures after a send with that outcome
FaultsAfter(f, out) == IF out = "throw" /\ chan = "open" THEN f + 1 ELSE f


\* The promise of an async call that nothing awaits and nothing catches
\* has rejected (out = "throw"): the process is doomed.  Node ends it with
\* the unhandled rejection once the continuations that are due (the
\* microtasks and the process.nextTick callbacks) have run.
unhandled_rejection(out) == IF out = "throw" THEN "doomed" ELSE node_process

\* the server process has not terminated: continuations still run
ProcessRuns == node_process # "exited"

\* the event loop takes the next event of the environment (the channel's
\* open or close, a socket's connect, error, data or end): not in a process
\* that is doomed, which ends before the loop turns again
EventLoopTurns == node_process = "up"

\* a continuation of close_stream is due as a microtask: the
\* `await this.socket.close()` of close() (the socket's close() awaits
\* nothing), or the `await stream.close()` of a close() that returned at its
\* guard, has settled
ContinuationDue == \E c \in calls : c.pc \in {"close", "return"}

\* the event loop takes the next event of a destination socket: the
\* microtasks that are due run first
SocketEvent == EventLoopTurns /\ ~ContinuationDue

\* Node ends the doomed process: exit code 1
ProcessExit ==
  /\ node_process = "doomed"
  /\ node_process' = "exited"
  /\ UNCHANGED <<compVars, client, options, wisp_version, chan, connected, ws_closed, sent, sent_by,
                 conn_pc, streams, objs, calls, server_exts, client_exts, nmsgs, faults>>

(***************************************************************************)
(* ServerStream.close and ServerConnection.close_stream.                   *)
(*                                                                         *)
(* close_stream works on the stream table, the objects, the suspended      *)
(* invocations and the log of the carrier: these travel as one record st.  *)
(* An invocation that found an entry is suspended in                       *)
(* `await this.socket.close()` of close() (pc "close") and, when a CLOSE   *)
(* packet is sent, in `await this.conn.ws.send(packet)` (pc "send"); when  *)
(* close() returned at its guard it is suspended in                        *)
(* `await stream.close(reason)` of close_stream (pc "return").  The table  *)
(* entry is deleted when the invocation resumes for the last time.         *)
(***************************************************************************)
Now ==
  [streams |-> streams, objs |-> objs, calls |-> calls, sent |-> sent,
   sent_by |-> sent_by, faults |-> faults, node_process |-> node_process]

\* NodeTCPSocket.close / NodeUDPSocket.close: nothing without a socket
socket_close(sock) == IF sock \in {"none", "closed"} THEN sock ELSE "closed"

\* a close() without its closed guard (a faulty variant the properties are
\* tested against)
StreamCloseUnguarded(os, o, cause, closer) ==
  [os EXCEPT ![o].closed = TRUE,
             ![o].buf_ended = TRUE,
             ![o].sock = socket_close(@),
             ![o].sock_closes = @ + 1,
             ![o].cause = cause,
             ![o].closer = closer]

\* ServerStream.close up to `await this.socket.close()`: the closed guard,
\* the terminal flag, the end of the client->target buffer, the call of the
\* socket's close
StreamClose(os, o, cause, closer) ==
  IF os[o].closed THEN [os EXCEPT ![o].reclosed = TRUE]
  ELSE [os EXCEPT ![o].closed = TRUE,
                  ![o].buf_ended = TRUE,
                  ![o].sock = socket_close(@),
                  ![o].sock_closes = @ + 1,
                  ![o].cause = cause,
                  ![o].closer = closer]

\* ServerStream.close: `if (reason == null) return;` decides whether a CLOSE
\* packet is sent
CloseEmits(reason) == reason # Null

\* `delete this.streams[stream_id]`
DeleteStream(table, sid) == [table EXCEPT ![sid] = 0]

\* close_stream(stream_id, reason) up to its first suspension.  A stream id
\* without an entry returns at once.  Else stream.close(reason) runs up to
\* its guard or up to `await this.socket.close()` and the invocation is
\* suspended.  cause names the caller (the path of teardown), closer the
\* stream whose pump calls, rest the keys cleanup() has still to go through
\* when it is the caller.
close_stream(st, sid, reason, cause, closer, rest) ==
  LET o == IF sid \in TableIds THEN st.streams[sid] ELSE 0 IN
  IF o = 0 THEN st
  ELSE [st EXCEPT !.objs = StreamClose(st.objs, o, cause, closer),
                  !.calls = @ \cup {[sid |-> sid, o |-> o, reason |-> reason,
                                     pc |-> IF st.objs[o].closed THEN "return" ELSE "close",
                                     cause |-> cause, closer |-> closer, rest |-> rest]}]

\* the state after an action that ran close_stream, objs apart
Apply(st) ==
  /\ streams' = st.streams
  /\ calls' = st.calls
  /\ sent' = st.sent
  /\ sent_by' = st.sent_by
  /\ faults' = st.faults

(***************************************************************************)
(* The carrier, ServerConnection.setup and setup_wisp_v2.                  *)
(***************************************************************************)
\* AsyncRTCDataChannel.close: close the channel and mark the adapter closed
\* (connected keeps its value)
WsClose ==
  /\ chan' = "closed"
  /\ ws_closed' = TRUE
  /\ UNCHANGED connected

\* Object.keys(this.streams): integer keys in ascending order
RECURSIVE SortedSeq(_)
SortedSeq(S) ==
  IF S = {} THEN <<>>
  ELSE LET m == CHOOSE x \in S : \A y \in S : x <= y
       IN <<m>> \o SortedSeq(S \ {m})
StreamKeys == SortedSeq({sid \in TableIds : streams[sid] # 0})

\* the keys of the loop of cleanup() from the first that still has an entry
\* (close_stream returns at once for the others)
RECURSIVE live_keys(_, _)
live_keys(table, keys) ==
  IF keys = <<>> THEN <<>>
  ELSE IF table[Head(keys)] # 0 THEN keys
  ELSE live_keys(table, Tail(keys))

\* the loop of cleanup() from the key it stands at, up to its next
\* suspension: `await this.close_stream(Number(stream_id))`, without a
\* reason, for the next key that has an entry; after the last key
\* this.ws.close()
cleanup_streams(st, keys) ==
  LET live == live_keys(st.streams, keys) IN
  IF live = <<>>
  THEN /\ Apply(st) /\ objs' = st.objs
       /\ WsClose
       /\ conn_pc' = "done"
  ELSE LET closing == close_stream(st, Head(live), Null, "cleanup", 0, Tail(live)) IN
       /\ Apply(closing) /\ objs' = closing.objs
       /\ conn_pc' = "cleanup"
       /\ UNCHANGED <<chan, connected, ws_closed>>

\* close_stream has returned to its caller: cleanup() goes on with its
\* loop, the other callers (route_packet, which does not wait at all, the
\* task of create_stream, tcp_to_ws) have nothing left to do
Returned(st, c) ==
  IF c.cause = "cleanup" THEN cleanup_streams(st, c.rest)
  ELSE /\ Apply(st) /\ objs' = st.objs
       /\ UNCHANGED <<conn_pc, chan, connected, ws_closed>>

\* close() after `await this.socket.close()`.  Without a reason it returns
\* and close_stream deletes the table entry of its stream id.  With one the
\* CLOSE packet is sent and the invocation waits for the send; if the send
\* throws, close_stream is left before the delete and rejects: tcp_to_ws
\* has the handler of setup(), which calls close(); route_packet does not
\* await the call and nothing catches in the task of create_stream, so
\* there the rejection is unhandled.
CloseResume(c) ==
  /\ ProcessRuns
  /\ c \in calls
  /\ c.pc = "close"
  /\ LET left == [Now EXCEPT !.calls = @ \ {c}] IN
     IF ~CloseEmits(c.reason)
     THEN /\ Returned([left EXCEPT !.streams = DeleteStream(@, c.sid)], c)
          /\ UNCHANGED node_process
     ELSE \E out \in SendOutcomes :
            IF out = "ok"
            THEN /\ Apply([left EXCEPT !.sent = Append(@, ClosePacket(c.sid, c.reason)),
                                       !.sent_by = Append(@, c.o),
                                       !.calls = @ \cup {[c EXCEPT !.pc = "send"]}])
                 /\ UNCHANGED <<objs, node_process, conn_pc, chan, connected, ws_closed>>
            ELSE /\ Apply([left EXCEPT !.faults = FaultsAfter(@, out)])
                 /\ objs' = IF c.cause = "end"
                            THEN StreamClose([objs EXCEPT ![c.o].send_failed = TRUE],
                                             c.closer, "pump", c.closer)
                            ELSE [objs EXCEPT ![c.o].send_failed = TRUE]
                 /\ node_process' = IF c.cause = "end" THEN node_process
                                    ELSE unhandled_rejection(out)
                 /\ UNCHANGED <<conn_pc, chan, connected, ws_closed>>
  /\ UNCHANGED <<compVars, client, options, wisp_version, server_exts, client_exts, nmsgs>>

\* close_stream after `await stream.close(reason)`: close() has returned at
\* its guard, or its `await this.conn.ws.send(packet)` has resolved;
\* close_stream deletes the table entry of its stream id.
CloseSent(c) ==
  /\ ProcessRuns
  /\ c \in calls
  /\ c.pc \in {"send", "return"}
  /\ Returned([Now EXCEPT !.calls = @ \ {c}, !.streams = DeleteStream(@, c.sid)], c)
  /\ UNCHANGED <<compVars, client, options, wisp_version, node_process, server_exts,
                 client_exts, nmsgs>>

\* the first packet setup() sends: INFO on a version-2 connection, else the
\* initial CONTINUE
InitialContinue == ContinuePacket(0, buffer_size)
ServerInfo == InfoPacket(wisp_version, serialize_extensions(wisp_extensions))
\* the first packet setup() sends
FirstPacket == IF wisp_version = 2 THEN ServerInfo ELSE InitialContinue

\* The channel opens (the open event): `await this.ws.connect()` of setup()
\* resolves.
SetupConnected ==
  /\ EventLoopTurns
  /\ conn_pc = "connect"
  /\ chan = "connecting"
  /\ chan' = "open"
  /\ connected' = TRUE
  /\ conn_pc' = "connected"
  /\ UNCHANGED <<compVars, client, options, wisp_version, ws_closed, sent, sent_by, node_process,
                 streams, objs, calls, server_exts, client_exts, nmsgs, faults>>

\* setup() after `await this.ws.connect()`: its first send, the INFO of
\* setup_wisp_v2 or the initial CONTINUE, on the channel as it is by then.
\* Neither send of setup is awaited or caught: a send that throws is an
\* unhandled rejection.  On version 2 setup_wisp_v2 goes on to
\* `await this.ws.recv()`, which yields null at once on a closed adapter
\* that has no message queued: cleanup() and HandshakeError.
SetupSend ==
  /\ ProcessRuns
  /\ conn_pc = "connected"
  /\ \E out \in SendOutcomes :
       /\ sent' = IF out = "ok" THEN Append(sent, FirstPacket) ELSE sent
       /\ sent_by' = IF out = "ok" THEN Append(sent_by, 0) ELSE sent_by
       /\ faults' = FaultsAfter(faults, out)
       /\ node_process' = unhandled_rejection(out)
  /\ conn_pc' \in IF wisp_version # 2 THEN {"run"}
                  ELSE IF ws_closed THEN {"hs_error", "handshake"}
                  ELSE {"handshake"}
  /\ UNCHANGED <<compVars, client, options, wisp_version, chan, connected, ws_closed, streams, objs,
                 calls, server_exts, client_exts, nmsgs>>

\* The channel closes or fails (the close event, _onClose).  A connect()
\* still waiting rejects and setup() throws.  A recv() of the handshake
\* that still waits yields null: cleanup() and HandshakeError; a recv()
\* that the client's first message has resolved already (the message event
\* came before the close event and setup_wisp_v2 has not resumed yet) keeps
\* its message (conn_pc stays "handshake").  The iteration of run() ends
\* (see Cleanup).
ChannelClose ==
  /\ EventLoopTurns
  /\ chan \in {"connecting", "open"}
  /\ chan' = "closed"
  /\ connected' = FALSE
  /\ ws_closed' = TRUE
  /\ conn_pc' \in CASE conn_pc = "connect" -> {"failed"}
                    [] conn_pc = "handshake" -> {"hs_error", "handshake"}
                    [] OTHER -> {conn_pc}
  /\ UNCHANGED <<compVars, client, options, wisp_version, sent, sent_by, streams, objs, calls, server_exts,
                 client_exts, nmsgs, faults, node_process>>

\* The channel's 'error' event (_onError, and handleError of a connect()
\* that still waits).  While the adapter is not connected it is marked
\* closed and the waiting recv()s yield null; a connect() that still waits
\* rejects and setup() throws (the listeners of connect() are removed, the
\* one for 'open' among them).  The channel itself stays as it is.  On a
\* connected adapter the event only records the error.
ChannelError ==
  /\ EventLoopTurns
  /\ chan \in {"connecting", "open"}
  /\ ws_closed' = (ws_closed \/ ~connected)
  /\ conn_pc' = IF conn_pc = "connect" THEN "failed" ELSE conn_pc
  /\ UNCHANGED <<compVars, client, options, wisp_version, chan, connected, sent, sent_by, streams,
                 objs, calls, server_exts, client_exts, nmsgs, faults, node_process>>

\* The channel's 'open' event after connect() has rejected: handleOpen has
\* been removed, so the adapter stays unconnected and nothing is sent.
ChannelOpen ==
  /\ EventLoopTurns
  /\ chan = "connecting"
  /\ conn_pc # "connect"
  /\ chan' = "open"
  /\ UNCHANGED <<compVars, client, options, wisp_version, connected, ws_closed, conn_pc, sent,
                 sent_by, streams, objs, calls, server_exts, client_exts, nmsgs, faults,
                 node_process>>

\* an advertisement that enables every extension of the server (faulty variant)
common_extensions_all(client_ids, server_ids) ==
  {server_ids[j] : j \in 1..Len(server_ids)}

\* the loops of setup_wisp_v2 over the client's parsed extensions and the
\* server's: the keys they put in server_exts and in client_exts
common_extensions(client_ids, server_ids) ==
  {client_ids[i] : i \in {i \in 1..Len(client_ids) :
                            \E j \in 1..Len(server_ids) : server_ids[j] = client_ids[i]}}

\* setup_wisp_v2 after `await this.ws.recv()` yields the client's first
\* message, and the rest of setup(): the initial CONTINUE, whatever the
\* state of the channel is by then.
HandshakeRecv(m) ==
  /\ ProcessRuns
  /\ conn_pc = "handshake"
  /\ nmsgs < MaxMsgs
  /\ nmsgs' = nmsgs + 1
  /\ LET packet == WispPacket_parse_all(m)
         valid == {wisp_extensions[i] : i \in 1..Len(wisp_extensions)}
         exts == parse_extensions(packet.payload.extensions, valid)
     IN IF ~packet.ok
        THEN \* parse_all throws out of setup()
             /\ conn_pc' = "failed"
             /\ UNCHANGED <<chan, connected, ws_closed, sent, sent_by, server_exts,
                            client_exts, faults, node_process>>
        ELSE IF packet.type # T_INFO
        THEN \* unexpected packet: cleanup(), HandshakeError
             /\ WsClose
             /\ conn_pc' = "hs_error"
             /\ UNCHANGED <<sent, sent_by, server_exts, client_exts, faults, node_process>>
        ELSE IF ~exts.ok
        THEN \* parse_extensions throws out of setup()
             /\ conn_pc' = "failed"
             /\ UNCHANGED <<chan, connected, ws_closed, sent, sent_by, server_exts,
                            client_exts, faults, node_process>>
        ELSE /\ server_exts' = common_extensions(exts.ids, wisp_extensions)
             /\ client_exts' = common_extensions(exts.ids, wisp_extensions)
             /\ \E out \in SendOutcomes :
                  /\ sent' = IF out = "ok" THEN Append(sent, InitialContinue) ELSE sent
                  /\ sent_by' = IF out = "ok" THEN Append(sent_by, 0) ELSE sent_by
                  /\ faults' = FaultsAfter(faults, out)
                  /\ node_process' = unhandled_rejection(out)
             /\ conn_pc' = "run"
             /\ UNCHANGED <<chan, connected, ws_closed>>
  /\ UNCHANGED <<compVars, client, options, wisp_version, streams, objs, calls>>


(***************************************************************************)
(* ServerConnection.run, route_packet, create_stream and cleanup.          *)
(***************************************************************************)
\* create_stream up to the start of its background task: the new stream
\* replaces whatever the table holds under the id
create_stream(st, stream_id, type, hostname, port) ==
  [st EXCEPT !.objs = Append(@, NewStream(stream_id, type, hostname, port)),
             !.streams = [@ EXCEPT ![stream_id] = Len(st.objs) + 1]]

\* clientToTarget.write(data) after close() has ended the PassThrough: the
\* chunk is not taken.  While ws_to_tcp iterates, or when its iteration is
\* over, nothing else happens (the iteration listens for the stream's
\* errors; what the buffer holds stays).  When ws_to_tcp has not started
\* nobody listens for the 'error' event (ERR_STREAM_WRITE_AFTER_END) and
\* the process is doomed.
write_after_end(st, o) ==
  IF st.objs[o].w2t_pc = "idle" THEN [st EXCEPT !.node_process = "doomed"]
  ELSE st

\* a buffer that hands out the newest chunk first (faulty variant)
put_data_front(st, o, data) ==
  IF st.objs[o].buf_ended THEN write_after_end(st, o)
  ELSE [st EXCEPT !.objs[o].buf = <<data>> \o @]

\* put_data: clientToTarget.write(data)
put_data(st, o, data) ==
  IF st.objs[o].buf_ended THEN write_after_end(st, o)
  ELSE [st EXCEPT !.objs[o].buf = Append(@, data)]

\* a server that answers a DATA packet for an unknown stream with a CLOSE
\* (faulty variant)
unknown_stream_data_answered(st, packet) ==
  [st EXCEPT !.sent = Append(@, ClosePacket(packet.stream_id, Voluntary)),
             !.sent_by = Append(@, 0)]

\* route_packet on a DATA packet whose stream is not in the table: a warning
\* and return
unknown_stream_data(st, packet) == st

\* a server that answers a client's CONTINUE with a CLOSE (faulty variant)
client_continue_answered(st, packet) ==
  [st EXCEPT !.sent = Append(@, ClosePacket(packet.stream_id, Voluntary)),
             !.sent_by = Append(@, 0)]

\* route_packet on a CONTINUE packet: a warning, nothing else
client_continue(st, packet) == st

\* route_packet on a parsed packet; the close_stream of a CLOSE packet is
\* started and not awaited
route_packet(st, packet) ==
  LET stream == IF packet.stream_id \in TableIds THEN st.streams[packet.stream_id] ELSE 0 IN
  IF stream = 0 /\ packet.type = T_DATA THEN unknown_stream_data(st, packet)
  ELSE IF packet.type = T_CONNECT
  THEN create_stream(st, packet.stream_id, packet.payload.stream_type,
                     trim(packet.payload.hostname), packet.payload.port)
  ELSE IF packet.type = T_DATA THEN put_data(st, stream, packet.payload.data)
  ELSE IF packet.type = T_CONTINUE THEN client_continue(st, packet)
  ELSE IF packet.type = T_CLOSE
  THEN close_stream(st, packet.stream_id, packet.payload.reason, "client", 0, <<>>)
  ELSE st

\* a loop that lets the error of route_packet out of run() (faulty variant)
after_routing_error_thrown == "failed"

\* run() after route_packet threw: the catch logs the error and the loop
\* goes on
after_routing_error == "run"

\* One turn of the loop of run(): the client's next message is taken, parsed
\* and routed; a message parse_all rejects is logged and skipped.  Messages
\* that arrived before the channel closed are still routed after it.  The
\* message is a Uint8Array (see RouteArrayBuffer).
Route(m) ==
  /\ ProcessRuns
  /\ conn_pc = "run"
  /\ nmsgs' = nmsgs + 1
  /\ LET packet == WispPacket_parse_all(m) IN
       IF packet.ok
       THEN LET st == route_packet(Now, packet) IN
            /\ Apply(st) /\ objs' = st.objs
            /\ node_process' = st.node_process
            /\ UNCHANGED conn_pc
       ELSE /\ conn_pc' = after_routing_error
            /\ UNCHANGED <<streams, objs, calls, sent, sent_by, faults, node_process>>
  /\ UNCHANGED <<compVars, options, wisp_version, chan, connected, ws_closed, server_exts,
                 client_exts>>

\* One turn of the loop of run() on a message that the channel delivered as
\* an ArrayBuffer (the adapter asks for binaryType "arraybuffer" and hands
\* event.data on as it is): new WispBuffer(data) takes a Uint8Array, a
\* number or a string and throws; the catch logs the error and the loop
\* goes on.
RouteArrayBuffer(m) ==
  /\ ProcessRuns
  /\ conn_pc = "run"
  /\ nmsgs' = nmsgs + 1
  /\ conn_pc' = after_routing_error
  /\ UNCHANGED <<compVars, options, wisp_version, chan, connected, ws_closed, sent, sent_by,
                 node_process, streams, objs, calls, server_exts, client_exts, faults>>

\* the turns of the loop on the messages of a client that sends MaxMsgs
\* messages and opens MaxStreams streams at most
Receive(m) ==
  /\ nmsgs < MaxMsgs
  /\ IsConnectMsg(m) => Len(objs) < MaxStreams
  /\ Route(m)
  /\ UNCHANGED client

ReceiveArrayBuffer(m) ==
  /\ nmsgs < MaxMsgs
  /\ RouteArrayBuffer(m)
  /\ UNCHANGED client

ClientMsgs == ConnectMsgs \cup {DataMsg(sid, nmsgs + 1) : sid \in StreamIds}
                \cup CloseMsgs \cup OtherMsgs

\* The iteration of run() has ended (the adapter is closed): cleanup() takes
\* the keys of the table and starts its loop over them.
Cleanup ==
  /\ ProcessRuns
  /\ conn_pc = "run"
  /\ ws_closed
  /\ cleanup_streams(Now, StreamKeys)
  /\ UNCHANGED <<compVars, client, options, wisp_version, server_exts, client_exts, nmsgs, node_process>>

(***************************************************************************)
(* The background task of create_stream, ServerStream.setup and the pumps. *)
(***************************************************************************)
\* a pump that reports the end of its socket as an error (faulty variant)
EndReasonNetworkError == NetworkError

\* the reason tcp_to_ws closes its stream with when the socket has ended
EndReason == Voluntary

\* `await filter.is_stream_allowed(...)` of the task answers.  answer: what
\* the resolver answered for the name.  Denied: close_stream with the
\* policy's reason.  Allowed: stream.setup() calls socket.connect(), which
\* starts with a lookup of its own (SocketConnect).
Policy(o, answer) ==
  /\ ProcessRuns
  /\ o \in Objs
  /\ objs[o].setup_pc = "policy"
  /\ answer \in Resolutions(objs[o].hostname)
  /\ LET s == objs[o]
         reason == is_stream_allowed(s.type, s.hostname, s.port, answer)
     IN IF reason # 0
        THEN LET st == close_stream([Now EXCEPT !.objs[o].policy = reason,
                                                !.objs[o].setup_pc = "done"],
                                    s.stream_id, reason, "policy", o, <<>>)
             IN Apply(st) /\ objs' = st.objs
        ELSE /\ objs' = [objs EXCEPT ![o].policy = 0, ![o].setup_pc = "lookup"]
             /\ UNCHANGED <<streams, calls, sent, sent_by, faults>>
  /\ UNCHANGED <<compVars, client, options, wisp_version, chan, connected, ws_closed, server_exts,
                 client_exts, nmsgs, conn_pc, node_process>>

\* NodeTCPSocket.connect / NodeUDPSocket.connect after
\* `await lookup_ip(this.hostname)`: with an address the socket is created
\* and connects, whether the stream has been closed meanwhile or not;
\* without one connect() rejects and the catch of create_stream closes the
\* stream with NetworkError.
SocketConnect(o, answer) ==
  /\ ProcessRuns
  /\ o \in Objs
  /\ objs[o].setup_pc = "lookup"
  /\ answer \in Resolutions(objs[o].hostname)
  /\ IF answer # NoAddress
     THEN /\ objs' = [objs EXCEPT ![o].setup_pc = "connecting", ![o].sock = "connecting"]
          /\ UNCHANGED <<streams, calls, sent, sent_by, faults>>
     ELSE LET st == close_stream([Now EXCEPT !.objs[o].connect_failed = TRUE,
                                             !.objs[o].setup_pc = "done"],
                                 objs[o].stream_id, NetworkError, "connect", o, <<>>)
          IN Apply(st) /\ objs' = st.objs
  /\ UNCHANGED <<compVars, client, options, wisp_version, chan, connected, ws_closed, server_exts,
                 client_exts, nmsgs, conn_pc, node_process>>

\* socket.connect() resolves: setup() starts both pumps.  tcp_to_ws asks the
\* socket for its iterator, which throws when close() has dropped the socket
\* meanwhile; the handler of setup() then calls close().
ConnectOk(o) ==
  /\ SocketEvent
  /\ o \in Objs
  /\ objs[o].setup_pc = "connecting"
  /\ LET open == objs[o].sock = "connecting"
         started == [objs EXCEPT ![o].setup_pc = "done",
                                 ![o].sock = IF open THEN "open" ELSE @,
                                 ![o].t2w_pc = IF open THEN "iter" ELSE "done",
                                 ![o].w2t_pc = "iter"]
     IN objs' = IF open THEN started ELSE StreamClose(started, o, "pump", o)
  /\ UNCHANGED <<compVars, client, options, wisp_version, chan, connected, ws_closed, sent, sent_by, conn_pc, node_process,
                 streams, calls, server_exts, client_exts, nmsgs, faults>>

\* socket.connect() rejects (the socket's error event): the catch of
\* create_stream closes the stream with NetworkError.
ConnectFail(o) ==
  /\ SocketEvent
  /\ o \in Objs
  /\ objs[o].setup_pc = "connecting"
  /\ LET st == close_stream([Now EXCEPT !.objs[o].connect_failed = TRUE,
                                        !.objs[o].setup_pc = "done",
                                        !.objs[o].sock =
                                          IF @ = "connecting" THEN "failed" ELSE @],
                            objs[o].stream_id, NetworkError, "connect", o, <<>>)
     IN Apply(st) /\ objs' = st.objs
  /\ UNCHANGED <<compVars, client, options, wisp_version, chan, connected, ws_closed, server_exts,
                 client_exts, nmsgs, conn_pc, node_process>>

\* the socket after the for-await of tcp_to_ws was left by a throw: the
\* iterator of a net.Socket destroys it on return; the generator over
\* events.on of a UDP socket only stops listening
socket_after_throw(type, sock) == IF type = TCP THEN "closed" ELSE sock

\* tcp_to_ws: the socket yields a chunk, which is sent as a DATA packet.  A
\* send that throws leaves the pump; the handler of setup() calls close().
\* A send that the channel takes returns at once, or, when the channel has
\* much buffered, after a wait (t2w_pc "send"; see T2WSent).  (The readable
\* side outlives socket.end(), so chunks may come after close().)
T2WData(o) ==
  /\ SocketEvent
  /\ o \in Objs
  /\ objs[o].t2w_pc = "iter"
  /\ objs[o].rx < MaxChunks
  /\ \E out \in SendOutcomes :
       IF out = "ok"
       THEN /\ sent' = Append(sent, DataPacket(objs[o].stream_id, <<objs[o].rx + 1>>))
            /\ sent_by' = Append(sent_by, o)
            /\ \E pc \in {"iter", "send"} :
                 objs' = [objs EXCEPT ![o].rx = @ + 1, ![o].t2w_pc = pc]
            /\ UNCHANGED faults
       ELSE /\ objs' = [StreamClose([objs EXCEPT ![o].rx = @ + 1, ![o].t2w_pc = "done",
                                                 ![o].send_failed = TRUE],
                                    o, "pump", o)
                          EXCEPT ![o].sock = socket_after_throw(objs[o].type, @)]
            /\ faults' = FaultsAfter(faults, out)
            /\ UNCHANGED <<sent, sent_by>>
  /\ UNCHANGED <<compVars, client, options, wisp_version, chan, connected, ws_closed, conn_pc, node_process, streams, calls,
                 server_exts, client_exts, nmsgs>>

\* tcp_to_ws: the iteration of the socket is over.  "fin": the peer ended
\* the TCP stream and the pump goes on to close_stream(stream_id, Voluntary)
\* (see CloseResume for a send that throws).  "reset": the iteration throws
\* (a TCP socket's error, or the 'error' event of a UDP socket, on which
\* events.on rejects) and the handler calls close().  The iteration of a
\* UDP socket has no other end.  Either way the socket is gone afterwards.
\* An error that comes while the pump waits in its send (t2w_pc "send") is
\* kept by the iterator: a TCP socket is lost at once (its 'close' event
\* drops it), the stream is not closed, and the pump throws when its wait
\* ends (T2WSent).  A FIN that comes during the wait is taken after it.
T2WEnd(o, how) ==
  /\ SocketEvent
  /\ o \in Objs
  /\ objs[o].t2w_pc \in {"iter", "send"}
  /\ how = "fin" => objs[o].type = TCP /\ objs[o].t2w_pc = "iter"
  /\ LET ended == [Now EXCEPT !.objs[o].t2w_pc = "done", !.objs[o].sock = "closed"] IN
     IF objs[o].t2w_pc = "send"
     THEN /\ objs' = [objs EXCEPT ![o].t2w_pc = "send_error",
                                  ![o].sock = socket_after_throw(objs[o].type, @)]
          /\ UNCHANGED <<streams, calls, sent, sent_by, faults>>
     ELSE IF how = "fin"
     THEN LET st == close_stream(ended, objs[o].stream_id, EndReason, "end", o, <<>>) IN
          Apply(st) /\ objs' = st.objs
     ELSE /\ objs' = StreamClose(ended.objs, o, "pump", o)
          /\ UNCHANGED <<streams, calls, sent, sent_by, faults>>
  /\ UNCHANGED <<compVars, client, options, wisp_version, chan, connected, ws_closed, conn_pc, node_process, server_exts,
                 client_exts, nmsgs>>

\* tcp_to_ws after `await this.conn.ws.send(packet)`: the wait of the
\* adapter's send is over (its timer has fired).  The pump asks the socket
\* for the next chunk; when the socket has failed meanwhile the iteration
\* throws and the handler of setup() calls close().
T2WSent(o) ==
  /\ SocketEvent
  /\ o \in Objs
  /\ objs[o].t2w_pc \in {"send", "send_error"}
  /\ objs' = IF objs[o].t2w_pc = "send"
             THEN [objs EXCEPT ![o].t2w_pc = "iter"]
             ELSE StreamClose([objs EXCEPT ![o].t2w_pc = "done"], o, "pump", o)
  /\ UNCHANGED <<compVars, client, options, wisp_version, chan, connected, ws_closed, sent, sent_by,
                 conn_pc, node_process, streams, calls, server_exts, client_exts, nmsgs, faults>>

\* a pump that reports once per buffer_size sends (faulty variant)
continue_due_full(n) == n % buffer_size = 0

\* ws_to_tcp: packets_sent % (buffer_size / 2) is 0
continue_due(n) == n % (buffer_size \div 2) = 0

\* clientToTarget.readableLength: the chunks on the readable side of the
\* PassThrough, which takes chunks from its writable side only while it
\* holds less than highWaterMark = buffer_size of them
readableLength(buf) == IF Len(buf) > buffer_size THEN buffer_size ELSE Len(buf)

\* ws_to_tcp: the buffer yields a chunk and the pump calls socket.send,
\* which hands it to the socket's write and waits for the callback; without
\* a socket send throws and the handler of setup() calls close().
W2TSend(o) ==
  /\ ProcessRuns
  /\ o \in Objs
  /\ objs[o].w2t_pc = "iter"
  /\ objs[o].buf # <<>>
  /\ LET s == objs[o]
         rest == Tail(s.buf)
     IN IF s.sock # "open"
        THEN objs' = StreamClose([objs EXCEPT ![o].buf = rest, ![o].w2t_pc = "done"],
                                 o, "pump", o)
        ELSE objs' = [objs EXCEPT ![o].buf = rest,
                                  ![o].writing = <<Head(s.buf)>>,
                                  ![o].w2t_pc = "write"]
  /\ UNCHANGED <<compVars, client, options, wisp_version, chan, connected, ws_closed, sent, sent_by,
                 conn_pc, node_process, streams, calls, server_exts, client_exts, nmsgs, faults>>

\* ws_to_tcp after `await this.socket.send(...)`: the write's callback has
\* come (also when close() has ended the socket meanwhile).  written: the
\* socket took the chunk, packets_sent is counted up, and every
\* buffer_size / 2 sends a CONTINUE reports the room left in the buffer;
\* that send is neither awaited nor caught: when it throws the rejection is
\* unhandled.  Not written: the callback brings an error, send rejects, the
\* pump is left (leaving the loop destroys the buffer with what it holds)
\* and the handler of setup() calls close(); the error of a TCP socket
\* ends the iteration of tcp_to_ws as well, whose handler calls close() too
\* (a tcp_to_ws that waits in its send throws when the wait ends).
W2TWritten(o, written) ==
  /\ ProcessRuns
  /\ o \in Objs
  /\ objs[o].w2t_pc = "write"
  /\ LET s == objs[o]
         n == s.packets_sent + 1
         both == s.type = TCP /\ s.t2w_pc = "iter"
         failed == StreamClose([objs EXCEPT ![o].writing = <<>>, ![o].buf = <<>>,
                                            ![o].w2t_pc = "done",
                                            ![o].t2w_pc =
                                              IF s.type # TCP THEN @
                                              ELSE IF @ = "iter" THEN "done"
                                              ELSE IF @ = "send" THEN "send_error"
                                              ELSE @],
                               o, "pump", o)
         wrote == [objs EXCEPT ![o].writing = <<>>,
                               ![o].delivered = Append(@, s.writing[1]),
                               ![o].packets_sent = n,
                               ![o].w2t_pc = "iter"]
     IN IF ~written
        THEN /\ objs' = IF both THEN StreamClose(failed, o, "pump", o) ELSE failed
             /\ UNCHANGED <<sent, sent_by, faults, node_process>>
        ELSE IF ~continue_due(n)
        THEN objs' = wrote /\ UNCHANGED <<sent, sent_by, faults, node_process>>
        ELSE \E out \in SendOutcomes :
               /\ objs' = IF out = "ok" THEN wrote
                          ELSE [wrote EXCEPT ![o].send_failed = TRUE]
               /\ sent' = IF out = "ok"
                          THEN Append(sent, ContinuePacket(s.stream_id,
                                              buffer_size - readableLength(s.buf)))
                          ELSE sent
               /\ sent_by' = IF out = "ok" THEN Append(sent_by, o) ELSE sent_by
               /\ faults' = FaultsAfter(faults, out)
               /\ node_process' = unhandled_rejection(out)
  /\ UNCHANGED <<compVars, client, options, wisp_version, chan, connected, ws_closed, streams, calls,
                 server_exts, client_exts, nmsgs, conn_pc>>

\* ws_to_tcp: the buffer has ended and is drained; the pump calls close().
W2TEnd(o) ==
  /\ ProcessRuns
  /\ o \in Objs
  /\ objs[o].w2t_pc = "iter"
  /\ objs[o].buf = <<>>
  /\ objs[o].buf_ended
  /\ objs' = StreamClose([objs EXCEPT ![o].w2t_pc = "done"], o, "pump", o)
  /\ UNCHANGED <<compVars, client, options, wisp_version, chan, connected, ws_closed, sent, sent_by, conn_pc, node_process,
                 streams, calls, server_exts, client_exts, nmsgs, faults>>

(***************************************************************************)
(* The system.                                                             *)
(***************************************************************************)
Next ==
  \/ SetupConnected
  \/ SetupSend
  \/ ChannelError
  \/ ChannelOpen
  \/ ChannelClose
  \/ \E m \in HandshakeMsgs : HandshakeRecv(m)
  \/ \E m \in ClientMsgs : Receive(m)
  \/ \E m \in ClientMsgs : ReceiveArrayBuffer(m)
  \/ Cleanup
  \/ \E c \in calls : CloseResume(c)
  \/ \E c \in calls : CloseSent(c)
  \/ \E o \in Objs : \E answer \in Answers : Policy(o, answer)
  \/ \E o \in Objs : \E answer \in Answers : SocketConnect(o, answer)
  \/ \E o \in Objs : ConnectOk(o)
  \/ \E o \in Objs : ConnectFail(o)
  \/ \E o \in Objs : T2WData(o)
  \/ \E o \in Objs : \E how \in {"fin", "reset"} : T2WEnd(o, how)
  \/ \E o \in Objs : T2WSent(o)
  \/ \E o \in Objs : W2TSend(o)
  \/ \E o \in Objs : \E written \in BOOLEAN : W2TWritten(o, written)
  \/ \E o \in Objs : W2TEnd(o)
  \/ ProcessExit

Spec == Init /\ [][Next]_vars

(***************************************************************************)
(* What the properties read off a state.                                   *)
(***************************************************************************)
\* the positions in the carrier's log of the CLOSE / DATA packets that the
\* stream object o has sent
Closes(o) == {i \in 1..Len(sent) : sent_by[i] = o /\ sent[i][1] = T_CLOSE}
Datas(o) == {i \in 1..Len(sent) : sent_by[i] = o /\ sent[i][1] = T_DATA}
\* o has sent exactly one CLOSE, and it is the CLOSE of its stream id with
\* that reason
OneClose(o, reason) ==
  \E i \in Closes(o) : Closes(o) = {i} /\ sent[i] = ClosePacket(objs[o].stream_id, reason)
\* the table holds o under its stream id
Registered(o) == streams[objs[o].stream_id] = o
\* a close_stream on o is suspended
Pending(o) == \E c \in calls : c.o = o
\* the close() that tore o down waits for `await this.socket.close()` and
\* has not got to its send yet
Closing(o) == \E c \in calls : c.o = o /\ c.pc = "close"
\* the carrier is open and has accepted every send so far
CarrierSound == chan = "open" /\ faults = 0
\* the policy denied the CONNECT that created o
Denied(o) == objs[o].policy \notin {Null, 0}
\* the initial CONTINUE packets among the messages setup() has sent
InitialContinues == {i \in 1..Len(sent) : sent_by[i] = 0 /\ sent[i] = InitialContinue}
\* the process runs and nothing the server does by itself is left to do: no
\* close_stream is suspended, no pump waits in a send of its own, has a
\* chunk to write or an ended buffer to notice, and cleanup() is not due
Settled ==
  /\ ProcessRuns
  /\ ~ENABLED (\/ Cleanup
               \/ \E c \in calls : CloseResume(c)
               \/ \E c \in calls : CloseSent(c)
               \/ \E o \in Objs : T2WSent(o)
               \/ \E o \in Objs : W2TSend(o)
               \/ \E o \in Objs : \E written \in BOOLEAN : W2TWritten(o, written)
               \/ \E o \in Objs : W2TEnd(o))

(***************************************************************************)
(* Properties.                                                             *)
(***************************************************************************)
\* C1: a stream that a client CLOSE tore down has sent no CLOSE packet (a
\* close that originates from the peer is not mirrored back).
C1_NoMirroredClose ==
  \A o \in Objs : objs[o].cause = "client" => Closes(o) = {}

\* C2: teardown is idempotent: whatever triggers reach a stream, and in
\* whatever order, the stream sends at most one CLOSE packet, its socket's
\* close() is called at most once (exactly when the terminal flag is set),
\* and only a terminal stream has sent a CLOSE or has a cause of teardown.
C2_TeardownIdempotent ==
  \A o \in Objs :
    /\ Cardinality(Closes(o)) <= 1
    /\ objs[o].sock_closes = (IF objs[o].closed THEN 1 ELSE 0)
    /\ Closes(o) # {} => objs[o].closed
    /\ objs[o].closed <=> objs[o].cause # "none"
    /\ objs[o].reclosed => objs[o].closed
\* a second close reached a stream that had sent its CLOSE, and the policy
\* denied a stream that cleanup() had closed while its check was pending
C2_Witness ==
  \E o, p \in Objs :
    /\ objs[o].reclosed /\ Cardinality(Closes(o)) = 1 /\ objs[o].sock_closes = 1
    /\ objs[p].reclosed /\ objs[p].cause = "cleanup" /\ Denied(p) /\ objs[p].sock_closes = 1

\* C3: a stream torn down for a local cause (policy denial, connect failure,
\* graceful end of the socket, an error in a pump) while the carrier is open
\* and accepts every send has sent a CLOSE packet, once its close() has got
\* past the close of the socket.
C3_LocalTeardownEmitsClose ==
  \A o \in Objs :
    (/\ objs[o].closed /\ objs[o].cause \in {"policy", "connect", "end", "pump"}
     /\ CarrierSound /\ ~Closing(o))
      => Closes(o) # {}

\* C4: a terminal stream whose teardown has completed (no close_stream on it
\* waits for its send) is no longer in the stream table.
C4_TerminalStreamRemoved ==
  \A o \in Objs :
    (objs[o].closed /\ ~Pending(o) /\ CarrierSound) => ~Registered(o)

\* C5: a stream the policy has denied never gets a socket and never starts
\* a pump, and the connection keeps routing later packets (while the carrier
\* is sound the loop of run() goes on and the process is up); if it is the
\* denial that tore the stream down (the stream was in the table and not
\* yet terminal) and the carrier is sound, the stream has sent exactly one
\* CLOSE (once its close() has got past the close of the socket), carrying
\* the policy's reason (HostBlocked or ConnThrottled), and it leaves the
\* table when that send has completed.
C5_PolicyDenial ==
  \A o \in Objs :
    Denied(o) =>
      /\ objs[o].policy \in {HostBlocked, ConnThrottled}
      /\ objs[o].sock = "none"
      /\ objs[o].t2w_pc = "idle" /\ objs[o].w2t_pc = "idle"
      /\ CarrierSound => conn_pc = "run" /\ node_process = "up"
      /\ (objs[o].cause = "policy" /\ objs[o].closer = o /\ CarrierSound /\ ~Closing(o))
           => /\ OneClose(o, objs[o].policy)
              /\ ~Pending(o) => ~Registered(o)

\* C6: a stream whose connect failed never starts a pump and never has an
\* open socket, and the connection survives (while the carrier is sound the
\* loop of run() goes on and the process is up); if it is the failure that
\* tore the stream down (the stream was in the table and not yet terminal)
\* and the carrier is sound, the stream has sent exactly one CLOSE (once
\* its close() has got past the close of the socket), with NetworkError,
\* and it leaves the table when that send has completed.
C6_ConnectFailure ==
  \A o \in Objs :
    objs[o].connect_failed =>
      /\ objs[o].sock # "open"
      /\ objs[o].t2w_pc = "idle" /\ objs[o].w2t_pc = "idle"
      /\ CarrierSound => conn_pc = "run" /\ node_process = "up"
      /\ (objs[o].cause = "connect" /\ objs[o].closer = o /\ CarrierSound /\ ~Closing(o))
           => /\ OneClose(o, NetworkError)
              /\ ~Pending(o) => ~Registered(o)

\* C7: when the socket of a stream that is in the table and not terminal ends
\* gracefully (and the carrier is sound), the stream is terminal at once and
\* its pump is over; it sends no CLOSE before its close() has got past the
\* close of the socket and has sent exactly one from then on, with reason
\* Voluntary, after every DATA packet it has sent; it leaves the table when
\* the send has completed.
C7_GracefulEnd ==
  \A o \in Objs :
    (objs[o].cause = "end" /\ objs[o].closer = o /\ CarrierSound)
      => /\ objs[o].closed
         /\ objs[o].t2w_pc = "done"
         /\ IF Closing(o) THEN Closes(o) = {} ELSE OneClose(o, Voluntary)
         /\ \A i \in Closes(o) : \A j \in Datas(o) : j < i
         /\ ~Pending(o) => ~Registered(o)
C7_Witness ==
  \E o \in Objs :
    /\ objs[o].cause = "end" /\ objs[o].closer = o /\ CarrierSound
    /\ Datas(o) # {} /\ OneClose(o, Voluntary)

\* C8: once cleanup() has run, the table is empty and the carrier is closed,
\* every terminal stream of the connection (those that cleanup closed among
\* them) has no socket that is open or connecting, and no stream that
\* cleanup closed has sent a CLOSE.
C8_AllClosedAfterCleanup ==
  conn_pc = "done" =>
    /\ \A sid \in StreamIds : streams[sid] = 0
    /\ chan = "closed"
    /\ \A o \in Objs : objs[o].closed => objs[o].sock \notin {"connecting", "open"}
    /\ \A o \in Objs : objs[o].cause = "cleanup" => Closes(o) = {}

\* C9: when a channel.send under a pump or a teardown has thrown and the
\* server has nothing left to do by itself, every stream of the connection
\* is terminal.
C9_SendFailureTearsDownAll ==
  ((\E o \in Objs : objs[o].send_failed) /\ Settled) => \A o \in Objs : objs[o].closed

\* C10: on a version-2 connection the first message sent is an INFO on stream
\* 0 and the initial CONTINUE is in the log only once the client's INFO has
\* been accepted; on a version-1 connection the first message sent is the
\* CONTINUE (stream 0, credit 128).  The initial CONTINUE is sent at most
\* once, exactly once when setup() has succeeded (run() has been entered),
\* and not at all while setup() has not got through or when it has failed.
C10_StartOrdering ==
  /\ (sent # <<>> /\ faults = 0) =>
       IF wisp_version = 2
       THEN /\ sent[1][1] = T_INFO /\ getUint(sent[1], 1, 4) = 0
            /\ sent_by[1] = 0
       ELSE sent[1] = ContinuePacket(0, buffer_size) /\ sent_by[1] = 0
  /\ Cardinality(InitialContinues) <= 1
  /\ conn_pc \in {"run", "cleanup", "done"} => Cardinality(InitialContinues) = 1
  /\ conn_pc \in {"connect", "connected", "handshake", "hs_error", "failed"}
       => InitialContinues = {}
  /\ \A i \in InitialContinues : (wisp_version = 2 /\ faults = 0) => i > 1
(***************************************************************************)
(* The version-2 handshake on its own: every options record that changes   *)
(* the advertisement, and every kind of first message.                     *)
(***************************************************************************)
\* the options that decide what add_extensions advertises; the message of
\* the day is "hi"
HsOptionsSet ==
  {[DefaultOptions EXCEPT !.allow_udp_streams = u, !.wisp_motd = m] :
     u \in BOOLEAN, m \in {<<>>, <<104, 105>>, <<111, 107>>}}

\* the extension ids a client lists in its INFO; 9 is an id no side knows,
\* sent with a payload of one byte
ClientExtLists ==
  {<<>>, <<UDP_EXT>>, <<MOTD_EXT>>, <<UDP_EXT, MOTD_EXT>>, <<MOTD_EXT, UDP_EXT>>,
   <<9>>, <<9, UDP_EXT>>, <<UDP_EXT, 9, UDP_EXT>>}

RECURSIVE client_extensions(_)
client_extensions(ids) ==
  IF ids = <<>> THEN <<>>
  ELSE BaseExtension_serialize(Head(ids), IF Head(ids) = 9 THEN <<7>> ELSE <<>>)
         \o client_extensions(Tail(ids))

ClientInfo(ids) == InfoPacket(2, client_extensions(ids))

\* first messages that do not parse: three bytes, an unknown type, an INFO
\* payload of one byte, an extension list cut inside a record
HsMalformed ==
  {<<5, 0, 0>>, <<9, 1, 0, 0, 0>>, <<5, 0, 0, 0, 0, 2>>, InfoPacket(2, <<1, 0, 0>>)}
\* well-formed first messages that are not INFO
HsNotInfo == {ContinuePacket(1, 0), DataPacket(1, <<1>>), ClosePacket(1, Voluntary)}

HsMsgs == {ClientInfo(ids) : ids \in ClientExtLists} \cup HsMalformed \cup HsNotInfo

HsInit ==
  /\ options \in HsOptionsSet
  /\ wisp_version \in {1, 2}
  /\ chan = "connecting"
  /\ connected = FALSE
  /\ ws_closed = FALSE
  /\ sent = <<>>
  /\ sent_by = <<>>
  /\ conn_pc = "connect"
  /\ node_process = "up"
  /\ streams = [sid \in TableIds |-> 0]
  /\ objs = <<>>
  /\ calls = {}
  /\ server_exts = {}
  /\ client_exts = {}
  /\ nmsgs = 0
  /\ faults = 0
  /\ client = AnyClient
  /\ ComponentsIdle

HsNext ==
  \/ SetupConnected
  \/ SetupSend
  \/ ChannelError
  \/ ChannelOpen
  \/ ChannelClose
  \/ \E m \in HsMsgs : HandshakeRecv(m)
  \/ ProcessExit

HandshakeSpec == HsInit /\ [][HsNext]_vars

\* a CLOSE packet carrying the reason, on whatever stream id
IsCloseWith(m, reason) ==
  LET packet == WispPacket_parse_all(m)
  IN packet.ok /\ packet.type = T_CLOSE /\ packet.payload.reason = reason

\* C11: when the message the version-2 handshake receives is a well-formed
\* packet that is not INFO, the server has emitted a CLOSE carrying
\* InvalidInfo (0x41) by the time the handshake ends.
C11_NotInfoClosesInvalidInfo ==
  [][\A m \in HsMsgs :
       (HandshakeRecv(m) /\ WispPacket_parse_all(m).ok /\ WispPacket_parse_all(m).type # T_INFO)
         => \E i \in 1..Len(sent') : IsCloseWith(sent'[i], InvalidInfo)]_vars

\* C12: every handshake that ends without success (the carrier closed, the
\* first message malformed or not INFO) has run cleanup (carrier closed,
\* stream table empty) and surfaces HandshakeError.
C12_FailedHandshakeCleansUp ==
  [][(conn_pc = "handshake" /\ conn_pc' \notin {"handshake", "run"})
       => /\ conn_pc' = "hs_error"
          /\ chan' = "closed"
          /\ ws_closed'
          /\ \A sid \in StreamIds : streams'[sid] = 0]_vars

\* the set of the elements of a sequence
IdsOf(ids) == {ids[i] : i \in 1..Len(ids)}

\* C13: after a successful version-2 handshake server_exts and client_exts
\* have the same keys, the ids that the server advertised and that the
\* client's INFO lists: an id only the client sent is ignored, an id only the
\* server advertised is not enabled.
C13_NegotiatedIsIntersection ==
  [][\A ids \in ClientExtLists :
       (HandshakeRecv(ClientInfo(ids)) /\ conn_pc' = "run")
         => /\ server_exts' = IdsOf(ids) \cap IdsOf(wisp_extensions)
            /\ client_exts' = server_exts']_vars

\* a handshake succeeded on a server that advertises UDP and MOTD with a
\* client that listed UDP only (or UDP and unknown ids): UDP alone is enabled
C13_Witness ==
  /\ wisp_version = 2
  /\ conn_pc = "run"
  /\ IdsOf(wisp_extensions) = {UDP_EXT, MOTD_EXT}
  /\ server_exts = {UDP_EXT}
  /\ client_exts = {UDP_EXT}

(***************************************************************************)
(* Packets the routing loop drops.                                         *)
(***************************************************************************)
\* a turn of the loop of run() that took a message and changed nothing else
NothingRouted ==
  UNCHANGED <<compVars, client, options, wisp_version, chan, connected, ws_closed, sent, sent_by, conn_pc, node_process,
              streams, objs, calls, server_exts, client_exts, faults>>

\* C14: a DATA packet whose stream id is not in the stream table is dropped:
\* the table, every stream (buffer, counters) and the carrier's log are
\* unchanged, and the connection goes on routing.
C14_UnknownStreamDataDropped ==
  [][\A sid \in StreamIds :
       (streams[sid] = 0 /\ Receive(DataMsg(sid, nmsgs + 1)))
         => NothingRouted /\ conn_pc' = "run"]_vars

\* stream 1 was opened and a second message (a DATA for stream 2, which was
\* never opened, is one) left the table, the stream and the carrier as they
\* were
C14_Witness ==
  /\ conn_pc = "run"
  /\ nmsgs = 2
  /\ Len(objs) = 1
  /\ streams[1] = 1
  /\ streams[2] = 0
  /\ objs[1].buf = <<>>
  /\ ~objs[1].closed
  /\ sent = <<FirstPacket>>

\* C15: a CONTINUE received from the client, and an INFO received after
\* setup (on a version-1 session too), are dropped: nothing of the streams or
\* the connection changes, nothing is emitted, the connection goes on.
C15_ClientContinueInfoDropped ==
  [][\A m \in DroppedMsgs :
       Receive(m) => WispPacket_parse_all(m).ok /\ NothingRouted /\ conn_pc' = "run"]_vars

\* a version-1 session whose client sent nothing but such packets: only the
\* initial CONTINUE was emitted and no stream exists
C15_Witness ==
  /\ wisp_version = 1
  /\ conn_pc = "run"
  /\ chan = "open"
  /\ nmsgs = MaxMsgs
  /\ objs = <<>>
  /\ sent = <<InitialContinue>>

\* C16: a message that fails packet parsing (fewer than 5 bytes, unknown
\* type, payload below the minimum of its type) is rejected by parse_all and
\* skipped by the loop: table and streams unchanged, the loop goes on.
C16_MalformedSkipped ==
  [][\A m \in MalformedMsgs :
       Receive(m) => ~WispPacket_parse_all(m).ok /\ NothingRouted /\ conn_pc' = "run"]_vars

\* a version-2 session after a handshake with UDP negotiated, whose client
\* then sent two messages without any effect
C16_Witness ==
  /\ wisp_version = 2
  /\ conn_pc = "run"
  /\ chan = "open"
  /\ server_exts = {UDP_EXT}
  /\ nmsgs = MaxMsgs
  /\ objs = <<>>
  /\ sent = <<ServerInfo, InitialContinue>>

(***************************************************************************)
(* Flow control on one stream: a version-1 connection, one TCP stream to   *)
(* "a", and a client that writes to it.  The client is one of three kinds: *)
(* "credit" keeps the credit account of the protocol (it starts with       *)
(* buffer_size, pays one per DATA, takes the value of each CONTINUE for    *)
(* the stream when it reads it, sends only with credit left); "greedy"     *)
(* sends without looking at its credit; "paced" never lets more than       *)
(* PacedWindow chunks wait in the buffer.  The destination takes chunks at *)
(* any pace and stalls after MaxFlowSends (MaxPacedSends for "paced"); a   *)
(* write to it may fail, which tears the stream down, and the client stops *)
(* writing to a stream that is torn down.                                  *)
(***************************************************************************)
FlowKinds == {"credit", "greedy", "paced"}

FlowInit ==
  /\ options = DefaultOptions
  /\ wisp_version = 1
  /\ chan = "connecting"
  /\ connected = FALSE
  /\ ws_closed = FALSE
  /\ sent = <<>>
  /\ sent_by = <<>>
  /\ conn_pc = "connect"
  /\ node_process = "up"
  /\ streams = [sid \in TableIds |-> 0]
  /\ objs = <<>>
  /\ calls = {}
  /\ server_exts = {}
  /\ client_exts = {}
  /\ nmsgs = 0
  /\ faults = 0
  /\ client \in {[kind |-> k, credit |-> buffer_size, seen |-> 0] : k \in FlowKinds}
  /\ ComponentsIdle

\* the client opens stream 1
FlowConnect ==
  /\ objs = <<>>
  /\ Route(WispPacket_serialize([type |-> T_CONNECT, stream_id |-> 1,
                                 payload |-> [stream_type |-> TCP, port |-> 80,
                                              hostname |-> HostA]]))
  /\ UNCHANGED client

\* the client sends a DATA packet for stream 1, which is not torn down,
\* and run() routes it
FlowData ==
  /\ objs # <<>>
  /\ ~objs[1].closed
  /\ nmsgs < MaxFlowMsgs
  /\ client.kind = "credit" => client.credit > 0
  /\ client.kind = "paced" => Len(objs[1].buf) < PacedWindow
  /\ Route(DataMsg(1, nmsgs + 1))
  /\ client' = [client EXCEPT !.credit = IF client.kind = "credit" THEN @ - 1 ELSE @]

\* the pump takes the next chunk as soon as the buffer has one and hands it
\* to the destination socket
FlowSend ==
  /\ objs # <<>>
  /\ W2TSend(1)

\* the chunks the destination takes before it stalls
FlowStall == IF client.kind = "paced" THEN MaxPacedSends ELSE MaxFlowSends

\* the destination has taken the chunk (while it does not stall), or the
\* write has failed
FlowWritten ==
  /\ objs # <<>>
  /\ \E written \in BOOLEAN :
       /\ written => objs[1].packets_sent < FlowStall
       /\ W2TWritten(1, written)

\* the client reads the next message of the server; a CONTINUE for stream 1
\* resets its credit
FlowContinue ==
  /\ client.kind = "credit"
  /\ client.seen < Len(sent)
  /\ LET packet == WispPacket_parse_all(sent[client.seen + 1]) IN
       client' = [client EXCEPT
                    !.seen = @ + 1,
                    !.credit = IF packet.type = T_CONTINUE /\ packet.stream_id = 1
                               THEN packet.payload.buffer_remaining ELSE @]
  /\ UNCHANGED <<compVars, options, wisp_version, chan, connected, ws_closed, sent, sent_by,
                 conn_pc, node_process, streams, objs, calls, server_exts, client_exts, nmsgs, faults>>

FlowNext ==
  \/ SetupConnected
  \/ SetupSend
  \/ FlowConnect
  \/ Policy(1, AddrA)
  \/ SocketConnect(1, AddrA)
  \/ ConnectOk(1)
  \/ FlowData
  \/ FlowSend
  \/ FlowWritten
  \/ FlowContinue
  \/ ProcessExit

FlowSpec == FlowInit /\ [][FlowNext]_vars

\* the positions in the carrier's log of the CONTINUE packets stream o sent
ContinuesOf(o) == {i \in 1..Len(sent) : sent_by[i] = o /\ sent[i][1] = T_CONTINUE}
\* the four bytes of buffer_remaining in a CONTINUE packet are those of v
CarriesValue(m, v) == SubSeq(m, 6, 9) = setUint(4, v)
\* the chunks accepted for stream o and not yet taken by its pump
Depth(o) == Len(objs[o].buf)
\* stream o issued a CONTINUE in this step
IssuesContinue(o) ==
  /\ Len(sent') = Len(sent) + 1
  /\ sent_by'[Len(sent')] = o
  /\ sent'[Len(sent')][1] = T_CONTINUE

\* C17: every CONTINUE of a stream carries buffer_size minus the depth of
\* the stream's buffer at issuance, and the value on the wire is in
\* 0..buffer_size, whatever the client sends.
C17_ContinueIsRoomLeft ==
  [][\A o \in Objs :
       IssuesContinue(o)
         => /\ CarriesValue(sent'[Len(sent')], buffer_size - Depth(o)')
            /\ \E v \in 0..buffer_size : CarriesValue(sent'[Len(sent')], v)]_vars

\* what the pump does report: buffer_size minus the depth at issuance while
\* the depth is at most buffer_size, and 0 when more is buffered
ContinueIsRoomLeftOrZero ==
  [][\A o \in Objs :
       IssuesContinue(o)
         => /\ CarriesValue(sent'[Len(sent')],
                             IF Depth(o)' <= buffer_size THEN buffer_size - Depth(o)' ELSE 0)
            /\ \E v \in 0..buffer_size : CarriesValue(sent'[Len(sent')], v)]_vars

\* C18: with a client that keeps the credit account, no stream's buffer ever
\* holds more than buffer_size chunks; the buffer is looked at when the pump
\* has taken the chunk it could take and waits for the destination to write
\* it.
C18_CreditBoundsBuffer ==
  client.kind = "credit" =>
    \A o \in Objs : objs[o].w2t_pc = "write" => Depth(o) <= buffer_size

\* C19: a stream issues a CONTINUE exactly in the steps in which its
\* count of chunks sent to the destination reaches a multiple of
\* buffer_size / 2 (given that the carrier takes the packet): 64 chunks lie
\* between two CONTINUEs and none is issued before the 64th.
C19_ContinueEvery64 ==
  [][\A o \in Objs :
       LET reached == /\ objs'[o].packets_sent = objs[o].packets_sent + 1
                      /\ objs'[o].packets_sent % (buffer_size \div 2) = 0
       IN /\ IssuesContinue(o) => reached
          /\ (reached /\ chan = "open" /\ faults' = faults) => IssuesContinue(o)
          /\ Cardinality(ContinuesOf(o))' <= objs'[o].packets_sent \div (buffer_size \div 2)]_vars

\* stream 1 has sent 128 chunks and issued its second CONTINUE
C19_Witness ==
  /\ objs # <<>>
  /\ objs[1].packets_sent = buffer_size
  /\ Cardinality(ContinuesOf(1)) = 2

\* the chunks of stream o that were sent to its destination, are being
\* written to it or wait in its buffer
Held(o) == Len(objs[o].delivered) + Len(objs[o].writing) + Len(objs[o].buf)

\* C20: conservation from client to destination: the chunks accepted for a
\* stream are those sent to its socket plus those in its buffer, so a step
\* never lowers that sum (no accepted chunk is lost), raises it by one chunk
\* at most, and sends the chunk that was first in the buffer.
C20_Conservation ==
  [][\A o \in Objs :
       /\ Held(o)' >= Held(o)
       /\ Held(o)' <= Held(o) + 1
       /\ objs'[o].buf # objs[o].buf /\ Len(objs'[o].buf) < Len(objs[o].buf)
            => /\ objs'[o].buf = Tail(objs[o].buf)
               /\ objs'[o].writing = <<Head(objs[o].buf)>>
       /\ objs'[o].delivered # objs[o].delivered
            => objs'[o].delivered = Append(objs[o].delivered, objs[o].writing[1])]_vars

(***************************************************************************)
(* Order from the client to the destination.                               *)
(***************************************************************************)
\* the payloads of the DATA packets the client of FlowSpec has sent for
\* stream 1, in the order of their arrival: message 1 is the CONNECT, the
\* k-th message carries the byte k
ArrivedData == [i \in 1..(nmsgs - 1) |-> <<i + 1>>]

\* C21: the chunks handed to the destination socket's send are the first of
\* the client's DATA payloads for the stream, in the order they arrived;
\* until the stream is torn down they are followed by those still waiting
\* in the buffer, which make up the rest; nothing is handed over before the
\* socket has connected, so chunks that arrive during the policy check and
\* the connect wait and keep their place.
C21_DeliveredInArrivalOrder ==
  \A o \in Objs :
    LET handed == objs[o].delivered \o objs[o].writing IN
    /\ Len(handed) <= Len(ArrivedData)
    /\ handed = SubSeq(ArrivedData, 1, Len(handed))
    /\ ~objs[o].closed => handed \o objs[o].buf = ArrivedData
    /\ objs[o].setup_pc # "done" => objs[o].delivered = <<>>

\* three chunks have reached the destination of stream 1 and more wait
C21_Witness ==
  /\ objs # <<>>
  /\ Len(objs[1].delivered) >= 3
  /\ Len(objs[1].buf) >= 2

(***************************************************************************)
(* AsyncRTCDataChannel.send under the pumps of several streams             *)
(* (src/server/extensions.ts, send and _throttleSendBuffer; tcp_to_ws of   *)
(* src/server/server/connection.ts).  The adapter's state is chan,         *)
(* connected, ws_closed and the log sent; rtc holds the channel's          *)
(* bufferedAmount and, for each pump, where it stands and how many chunks  *)
(* it has taken from its socket.                                           *)
(***************************************************************************)
\* chunks each destination socket produces
MaxPumpChunks == 3
\* bytes the channel buffers for one DATA packet of these pumps
ChunkBytes == 8388608

send_buffer_size == 32 * 1024 * 1024
\* _bufferLowThreshold: half of send_buffer_size unless configured
bufferLowThreshold == send_buffer_size \div 2

Pumps == {1, 2}

\* the i-th chunk the socket of stream p produces
PumpChunk(p, i) == <<10 * p + i>>

\* the variables of the connection that play no part around the adapter
connVars == <<options, wisp_version, conn_pc, node_process, streams, objs, calls, server_exts,
              client_exts, nmsgs, faults, client>>

NoConnection ==
  /\ options = DefaultOptions
  /\ wisp_version = 1
  /\ conn_pc = "run"
  /\ node_process = "up"
  /\ streams = [sid \in TableIds |-> 0]
  /\ objs = <<>>
  /\ calls = {}
  /\ server_exts = {}
  /\ client_exts = {}
  /\ nmsgs = 0
  /\ faults = 0
  /\ client = AnyClient

SendInit ==
  /\ requestQueue = <<>>
  /\ NoConnection
  /\ chan = "open"
  /\ connected = TRUE
  /\ ws_closed = FALSE
  /\ sent = <<>>
  /\ sent_by = <<>>
  /\ rtc = [bufferedAmount |-> 0,
            pc |-> [p \in Pumps |-> "iter"],
            taken |-> [p \in Pumps |-> 0]]
  /\ input = <<>>
  /\ output = <<>>
  /\ dns = <<>>

\* a channel that puts the newest message first (faulty variant)
channel_send_front(log, bytes) == <<bytes>> \o log

\* this.channel.send(data.serialize().bytes): the message joins the
\* channel's outgoing messages, whole
channel_send(log, bytes) == Append(log, bytes)

\* a send that throttles from the low watermark on (faulty variant)
after_send_low(buffered) ==
  IF buffered > bufferLowThreshold THEN "throttle" ELSE "iter"

\* send() after channel.send: what it awaits for that bufferedAmount
after_send(buffered) ==
  IF buffered > send_buffer_size THEN "throttle"
  ELSE IF buffered > bufferLowThreshold THEN "tick"
  ELSE "iter"

\* a throttle that ends as soon as the high watermark is met (faulty variant)
throttle_waits_high(readyState, buffered) ==
  readyState = "open" /\ buffered > send_buffer_size

\* the condition of the loop of _throttleSendBuffer
throttle_waits(readyState, buffered) ==
  readyState = "open" /\ buffered > bufferLowThreshold

\* tcp_to_ws takes the next chunk of its socket and calls ws.send(packet).
\* send() throws when the adapter is not connected and the channel not open;
\* else it calls channel.send, which throws on a channel that is not open
\* (RTCDataChannel.send, InvalidStateError).  The rejection ends the pump.
PumpSend(p) ==
  /\ rtc.pc[p] = "iter"
  /\ rtc.taken[p] < MaxPumpChunks
  /\ LET packet == DataPacket(p, PumpChunk(p, rtc.taken[p] + 1))
         buffered == rtc.bufferedAmount + ChunkBytes IN
     IF (~connected /\ chan # "open") \/ chan # "open"
     THEN /\ rtc' = [rtc EXCEPT !.taken[p] = @ + 1, !.pc[p] = "failed"]
          /\ UNCHANGED <<sent, sent_by>>
     ELSE /\ sent' = channel_send(sent, packet)
          /\ sent_by' = Append(sent_by, p)
          /\ rtc' = [rtc EXCEPT !.taken[p] = @ + 1,
                                !.bufferedAmount = buffered,
                                !.pc[p] = after_send(buffered)]
  /\ UNCHANGED <<connVars, requestQueue, chan, connected, ws_closed, input, output, dns>>

\* the 1 ms timer of a send between the watermarks fires
SendTick(p) ==
  /\ rtc.pc[p] = "tick"
  /\ rtc' = [rtc EXCEPT !.pc[p] = "iter"]
  /\ UNCHANGED <<connVars, requestQueue, chan, connected, ws_closed, sent, sent_by, input, output, dns>>

\* a 10 ms poll of _throttleSendBuffer finds its condition false: send()
\* resolves and the pump goes on (a poll that finds it true changes nothing)
ThrottleDone(p) ==
  /\ rtc.pc[p] = "throttle"
  /\ ~throttle_waits(chan, rtc.bufferedAmount)
  /\ rtc' = [rtc EXCEPT !.pc[p] = "iter"]
  /\ UNCHANGED <<connVars, requestQueue, chan, connected, ws_closed, sent, sent_by, input, output, dns>>

\* the channel transmits one buffered message
Drain ==
  /\ chan = "open"
  /\ rtc.bufferedAmount > 0
  /\ rtc' = [rtc EXCEPT !.bufferedAmount = @ - ChunkBytes]
  /\ UNCHANGED <<connVars, requestQueue, chan, connected, ws_closed, sent, sent_by, input, output, dns>>

\* the channel starts to close: readyState is "closing", no event yet
RtcClosing ==
  /\ chan = "open"
  /\ chan' = "closing"
  /\ UNCHANGED <<connVars, requestQueue, connected, ws_closed, sent, sent_by, compVars>>

\* the channel is closed and its close event runs _onClose
RtcClosed ==
  /\ chan \in {"open", "closing"}
  /\ chan' = "closed"
  /\ connected' = FALSE
  /\ ws_closed' = TRUE
  /\ UNCHANGED <<connVars, requestQueue, sent, sent_by, compVars>>

SendNext ==
  \/ \E p \in Pumps : PumpSend(p)
  \/ \E p \in Pumps : SendTick(p)
  \/ \E p \in Pumps : ThrottleDone(p)
  \/ Drain
  \/ RtcClosing
  \/ RtcClosed

SendSpec == SendInit /\ [][SendNext]_vars

\* the timers of the polls fire for as long as a send is throttled
SendLiveSpec == SendSpec /\ \A p \in Pumps : WF_vars(ThrottleDone(p))

\* the packets of stream p on the carrier, in order
PumpPackets(p) == SelectSeq(sent, LAMBDA m : SubSeq(m, 2, 5) = setUint(4, p))

\* the chunks of its socket a pump has had accepted by the carrier
PumpAccepted(p) == IF rtc.pc[p] = "failed" THEN rtc.taken[p] - 1 ELSE rtc.taken[p]

\* C22: for each stream the DATA packets on the carrier carry the chunks of
\* its socket in the order the socket produced them, one chunk per packet
\* and every packet whole, while the pumps of the streams send concurrently
\* and sends are suspended by backpressure; every message on the carrier is
\* one of these packets.
C22_SocketOrderOnCarrier ==
  /\ \A p \in Pumps :
       PumpPackets(p) = [i \in 1..PumpAccepted(p) |-> DataPacket(p, PumpChunk(p, i))]
  /\ \A k \in 1..Len(sent) :
       /\ sent_by[k] \in Pumps
       /\ WispPacket_parse_all(sent[k]).ok
       /\ WispPacket_parse_all(sent[k]).type = T_DATA
       /\ WispPacket_parse_all(sent[k]).stream_id = sent_by[k]

\* the packets of the two streams interleave on the carrier, stream 2 sent
\* its second chunk before the first of stream 1, and a send was throttled
C22_Witness ==
  /\ Len(sent) = 2 * MaxPumpChunks
  /\ sent_by[1] = 2 /\ sent_by[2] = 2 /\ sent_by[3] = 1 /\ sent_by[4] = 2
  /\ rtc.pc[1] = "throttle"

(***************************************************************************)
(* Stream quotas.                                                          *)
(***************************************************************************)
\* the streams the connection holds other than the one object o stands for
OtherStreams(o) == Cardinality({sid \in TableIds : streams[sid] \notin {0, o}})

\* the policy decides on the CONNECT of stream object o in this step
Decides(o) ==
  /\ o \in Objs
  /\ objs[o].setup_pc = "policy"
  /\ objs'[o].setup_pc # "policy"

\* C23: with stream_limit_total = N (N not -1) a CONNECT is denied with
\* ConnThrottled exactly when the connection already holds N or more streams
\* other than the one being requested; no other check of these options
\* throttles.
C23_QuotaCountsOtherStreams ==
  [][\A o \in Objs :
       Decides(o) =>
         (objs'[o].policy = ConnThrottled
            <=> (options.stream_limit_total # -1
                   /\ OtherStreams(o) >= options.stream_limit_total))]_vars

(***************************************************************************)
(* Stream identifier 0.  The same connection, with a client that uses the  *)
(* identifier 0 for its streams.                                           *)
(***************************************************************************)
ZeroMsgs ==
  {WispPacket_serialize([type |-> T_CONNECT, stream_id |-> 0,
                         payload |-> [stream_type |-> TCP, port |-> 80, hostname |-> h]]) :
     h \in Hostnames}
    \cup {DataMsg(0, nmsgs + 1), ClosePacket(0, Voluntary)}

ZeroNext ==
  \/ SetupConnected
  \/ SetupSend
  \/ ChannelError
  \/ ChannelOpen
  \/ ChannelClose
  \/ \E m \in HandshakeMsgs : HandshakeRecv(m)
  \/ \E m \in ZeroMsgs : Receive(m)
  \/ \E m \in ZeroMsgs : ReceiveArrayBuffer(m)
  \/ Cleanup
  \/ \E c \in calls : CloseResume(c)
  \/ \E c \in calls : CloseSent(c)
  \/ \E o \in Objs : \E answer \in Answers : Policy(o, answer)
  \/ \E o \in Objs : \E answer \in Answers : SocketConnect(o, answer)
  \/ \E o \in Objs : ConnectOk(o)
  \/ \E o \in Objs : ConnectFail(o)
  \/ \E o \in Objs : T2WData(o)
  \/ \E o \in Objs : \E how \in {"fin", "reset"} : T2WEnd(o, how)
  \/ \E o \in Objs : T2WSent(o)
  \/ \E o \in Objs : W2TSend(o)
  \/ \E o \in Objs : \E written \in BOOLEAN : W2TWritten(o, written)
  \/ \E o \in Objs : W2TEnd(o)
  \/ ProcessExit

ZeroSpec == Init /\ [][ZeroNext]_vars

\* a DATA or CLOSE packet of the server on stream 0
OnStreamZero(m) == m[1] \in {T_DATA, T_CLOSE} /\ SubSeq(m, 2, 5) = setUint(4, 0)

\* C24: stream identifier 0 is reserved: whatever the client sends, the
\* stream table never holds an entry with id 0 and the server emits neither
\* DATA nor CLOSE on stream 0.
C24_StreamZeroReserved ==
  /\ streams[0] = 0
  /\ \A k \in 1..Len(sent) : ~OnStreamZero(sent[k])

\* the parts of it, each on its own
C24_NoEntryZero == streams[0] = 0
C24_NoDataOnZero == \A k \in 1..Len(sent) : ~(sent[k][1] = T_DATA /\ OnStreamZero(sent[k]))
C24_NoCloseOnZero == \A k \in 1..Len(sent) : ~(sent[k][1] = T_CLOSE /\ OnStreamZero(sent[k]))

(***************************************************************************)
(* The lists of is_stream_allowed, applied on their own                    *)
(* (src/server/server/filter.ts).  input is the request, output the        *)
(* function's answer once it has been applied.                             *)
(***************************************************************************)
HostB == <<98>>
HostAB == <<97, 98>>

\* list options: null, the empty array, one entry, two entries; port
\* entries are single ports and ranges
HostWhitelists == {NoList, ListOf(<<>>), ListOf(<<HostB>>), ListOf(<<HostB, HostA>>)}
HostBlacklists == {NoList, ListOf(<<HostA>>), ListOf(<<HostAB>>)}
PortWhitelists == {NoList, ListOf(<<<<80>>>>), ListOf(<<<<22>>, <<80, 443>>>>)}
PortBlacklists == {NoList, ListOf(<<<<443>>>>), ListOf(<<<<79, 81>>>>)}
PolicyPorts == {0, 22, 79, 80, 81, 443, 444}

PolicyOptions ==
  {[DefaultOptions EXCEPT !.hostname_whitelist = hw, !.hostname_blacklist = hb,
                          !.port_whitelist = pw, !.port_blacklist = pb,
                          !.allow_tcp_streams = tcp, !.allow_udp_streams = udp] :
     hw \in HostWhitelists, hb \in HostBlacklists, pw \in PortWhitelists,
     pb \in PortBlacklists, tcp \in BOOLEAN, udp \in BOOLEAN}

PolicyInit ==
  /\ requestQueue = <<>>
  /\ options \in PolicyOptions
  /\ wisp_version = 1
  /\ chan = "open"
  /\ connected = TRUE
  /\ ws_closed = FALSE
  /\ sent = <<>>
  /\ sent_by = <<>>
  /\ conn_pc = "run"
  /\ node_process = "up"
  /\ streams = [sid \in TableIds |-> 0]
  /\ objs = <<>>
  /\ calls = {}
  /\ server_exts = {}
  /\ client_exts = {}
  /\ nmsgs = 0
  /\ faults = 0
  /\ client = AnyClient
  /\ input \in [type : {TCP, UDP}, hostname : {HostA, HostB, HostAB},
                port : PolicyPorts]
  /\ output = <<>>
  /\ rtc = <<>>
  /\ dns = <<>>

\* await filter.is_stream_allowed(this, type, hostname, port), whether the
\* resolver answers for the name or not
PolicyApply(answer) ==
  /\ output = <<>>
  /\ output' = <<is_stream_allowed(input.type, input.hostname, input.port, answer)>>
  /\ UNCHANGED <<connVars, requestQueue, chan, connected, ws_closed, sent, sent_by, input, rtc, dns>>

PolicyNext == \E answer \in Answers : PolicyApply(answer)

PolicySpec == PolicyInit /\ [][PolicyNext]_vars

\* what the lists are to mean: with a whitelist the request passes only if
\* an entry matches; without one it is stopped if a blacklist entry matches
ListStops(whitelist, blacklist, Matches(_)) ==
  IF whitelist.configured
  THEN ~ \E i \in 1..Len(whitelist.entries) : Matches(whitelist.entries[i])
  ELSE /\ blacklist.configured
       /\ \E i \in 1..Len(blacklist.entries) : Matches(blacklist.entries[i])

HostMatches(entry) == regex_test(entry, input.hostname)
PortMatches(entry) ==
  IF Len(entry) = 2 THEN input.port \in entry[1]..entry[2] ELSE input.port = entry[1]

KindGate ==
  \/ input.type = TCP /\ ~options.allow_tcp_streams
  \/ input.type = UDP /\ ~options.allow_udp_streams

\* C25: is_stream_allowed denies with HostBlocked a request of a kind that is
\* switched off, whatever the lists say; otherwise, for hostnames and for
\* ports alike, a configured whitelist admits the request only if an entry
\* matches and the blacklist is then not consulted, without a whitelist a
\* configured blacklist denies it iff an entry matches, and a port entry
\* [lo, hi] matches exactly the ports lo <= p <= hi.  (No quota is set, so
\* past the lists only the address check can deny: it does when the
\* resolver answers the name with a loopback address, and not when it
\* answers a public address or none.)
C25_ListSemantics ==
  [][\A answer \in Answers :
       PolicyApply(answer) =>
         output'[1] =
           (IF KindGate THEN HostBlocked
            ELSE IF ListStops(options.hostname_whitelist, options.hostname_blacklist,
                              HostMatches)
            THEN HostBlocked
            ELSE IF ListStops(options.port_whitelist, options.port_blacklist, PortMatches)
            THEN HostBlocked
            ELSE IF answer = HostLoop THEN HostBlocked
            ELSE 0)]_vars

\* a request is allowed through both whitelists at the upper end of a port
\* range while the hostname blacklist has a matching entry
C25_Witness ==
  /\ output = <<0>>
  /\ options.hostname_whitelist = ListOf(<<HostB, HostA>>)
  /\ options.hostname_blacklist = ListOf(<<HostA>>)
  /\ options.port_whitelist = ListOf(<<<<22>>, <<80, 443>>>>)
  /\ input.hostname = HostA
  /\ input.port = 443

(***************************************************************************)
(* The DNS cache of lookup_ip (src/server/server/net.ts).  dns holds the   *)
(* clock (Date.now(), in milliseconds since the process started), the      *)
(* cache, the resolutions in flight and a record of the calls: how many    *)
(* were made, the hostname of the latest, how many went to the resolver,   *)
(* and what the last one to return was answered from.                      *)
(***************************************************************************)
\* calls of lookup_ip and advances of the clock in one run
MaxLookups == 3
MaxTicks == 3
\* the advances of the clock, in milliseconds
ClockSteps == {60, 61, 120000}

DnsNames == {HostA, HostB}
NoEntry == [kind |-> "none", time |-> 0, value |-> 0]

DnsInit ==
  /\ requestQueue = <<>>
  /\ NoConnection
  /\ chan = "open"
  /\ connected = TRUE
  /\ ws_closed = FALSE
  /\ sent = <<>>
  /\ sent_by = <<>>
  /\ input = <<>>
  /\ output = <<>>
  /\ rtc = <<>>
  /\ dns = [now |-> 0, ticks |-> 0,
            cache |-> [h \in DnsNames |-> NoEntry],
            pending |-> [h \in DnsNames |-> 0],
            calls |-> 0, asked |-> <<>>, resolutions |-> 0, settled |-> 0,
            last |-> [hostname |-> <<>>, from |-> "none", kind |-> "none",
                      value |-> 0, age |-> 0]]

\* time passes
ClockTick(d) ==
  /\ dns.ticks < MaxTicks
  /\ dns' = [dns EXCEPT !.now = @ + d, !.ticks = @ + 1]
  /\ UNCHANGED <<connVars, requestQueue, chan, connected, ws_closed, sent, sent_by, input, output, rtc>>

\* the loop over dns_cache that deletes the stale entries: now and time are
\* milliseconds, and the difference is compared with options.dns_ttl
evict_stale(cache, now) ==
  [h \in DnsNames |->
     IF cache[h].kind # "none" /\ now - cache[h].time > options.dns_ttl
     THEN NoEntry ELSE cache[h]]

\* `if (cache_entry.error)`: the stored rejection value is truthy.  The
\* value of an Error object is the number of its resolution, that of a
\* falsy rejection value (an injected dns_method may reject with undefined,
\* null, 0 or "") is 0.
error_is_set(entry) == entry.kind = "error" /\ entry.value # 0

\* what a cache entry answers a lookup with: its error thrown when that is
\* set, else its address, which an entry that holds a falsy error has not
\* (kind "undefined")
cache_answer(entry) ==
  IF error_is_set(entry) THEN [kind |-> "error", value |-> entry.value]
  ELSE IF entry.kind = "address" THEN [kind |-> "address", value |-> entry.value]
  ELSE [kind |-> "undefined", value |-> 0]

\* lookup_ip(hostname) up to its return or to `await perform_lookup`: a
\* literal address is returned as it is; else the stale entries go, a cached
\* entry answers (its error thrown, or its address returned), and without
\* one the resolver is asked
DnsLookup(h) ==
  /\ dns.calls < MaxLookups
  /\ IF ipaddr_isValid(h)
     THEN dns' = [dns EXCEPT !.calls = @ + 1, !.asked = h,
                             !.last = [hostname |-> h, from |-> "literal",
                                       kind |-> "address", value |-> 0,
                                       age |-> 0]]
     ELSE LET cache == evict_stale(dns.cache, dns.now) IN
          IF cache[h].kind # "none"
          THEN dns' = [dns EXCEPT !.calls = @ + 1, !.asked = h,
                                  !.cache = cache,
                                  !.last = [hostname |-> h, from |-> "cache",
                                            kind |-> cache_answer(cache[h]).kind,
                                            value |-> cache_answer(cache[h]).value,
                                            age |-> dns.now - cache[h].time]]
          ELSE dns' = [dns EXCEPT !.calls = @ + 1, !.asked = h,
                                  !.cache = cache,
                                  !.pending[h] = @ + 1,
                                  !.resolutions = @ + 1]
  /\ UNCHANGED <<connVars, requestQueue, chan, connected, ws_closed, sent, sent_by, input, output, rtc>>

\* dns_cache.set(hostname, {time: Date.now(), address}) after a resolution,
\* and dns_cache.set(hostname, {time: Date.now(), error: e}) after a failure
dns_cache_set(cache, h, kind, value, now) ==
  [cache EXCEPT ![h] = [kind |-> kind, time |-> now, value |-> value]]

\* perform_lookup settles: the address or the rejection value is stored
\* under the hostname with the time of that moment, and returned or thrown.
\* The outcome of the k-th resolution to settle is the value k (an address,
\* or an Error object), or 0 for a rejection with a falsy value.
DnsResolved(h, kind, truthy) ==
  /\ dns.pending[h] > 0
  /\ kind = "address" => truthy
  /\ LET value == IF truthy THEN dns.settled + 1 ELSE 0 IN
     dns' = [dns EXCEPT !.pending[h] = @ - 1,
                        !.settled = @ + 1,
                        !.cache = dns_cache_set(@, h, kind, value, dns.now),
                        !.last = [hostname |-> h, from |-> "resolver",
                                  kind |-> kind, value |-> value,
                                  age |-> 0]]
  /\ UNCHANGED <<connVars, requestQueue, chan, connected, ws_closed, sent, sent_by, input, output, rtc>>

DnsNext ==
  \/ \E d \in ClockSteps : ClockTick(d)
  \/ \E h \in DnsNames \cup {HostLoop} : DnsLookup(h)
  \/ \E h \in DnsNames : \E kind \in {"address", "error"} : \E truthy \in BOOLEAN :
       DnsResolved(h, kind, truthy)

DnsSpec == DnsInit /\ [][DnsNext]_vars

\* dns_ttl seconds, in the unit of the clock
TtlMs == options.dns_ttl * 1000

\* the age of a cache entry
Age(h) == dns.now - dns.cache[h].time

\* C26: a call of lookup_ip evicts a cache entry exactly when its age
\* exceeds dns_ttl seconds; a hostname cached no longer ago than that is
\* answered from the cache without a new resolution, and no entry older than
\* dns_ttl seconds is ever returned.
C26_CacheLifetime ==
  [][(dns'.calls = dns.calls + 1 /\ ~ipaddr_isValid(dns'.asked)) =>
       /\ \A g \in DnsNames :
            dns.cache[g].kind # "none" =>
              (dns'.cache[g] = NoEntry <=> Age(g) > TtlMs)
       /\ (dns.cache[dns'.asked].kind # "none" /\ Age(dns'.asked) <= TtlMs) =>
            /\ dns'.resolutions = dns.resolutions
            /\ dns'.last.from = "cache"
       /\ dns'.last.from = "cache" => dns'.last.age <= TtlMs]_vars

\* the part the code keeps: nothing older than dns_ttl seconds is returned
NoStaleAnswer == dns.last.from = "cache" => dns.last.age <= TtlMs

(***************************************************************************)
(* AsyncRTCDataChannel on its receiving side (src/server/extensions.ts:    *)
(* _onMessage, _onClose, _onError, _getNext, recv, close, _cleanup).  rtc  *)
(* holds _queue, _waiters (the receivers whose recv() is pending), whether *)
(* the adapter's listeners are attached, whether the handlers of the       *)
(* pending connect() are attached (opening), the number of messages that   *)
(* arrived (the k-th message is k), and a record of what recv() returned:  *)
(* per receiver (got) and overall (delivered); dropped are the messages    *)
(* close() discarded.                                                      *)
(***************************************************************************)
\* messages the channel delivers and calls of recv() in one run
MaxArrivals == 3
MaxRecvs == 4

Receivers == {1, 2}

RecvInit ==
  /\ requestQueue = <<>>
  /\ NoConnection
  /\ chan = "connecting"
  /\ connected = FALSE
  /\ ws_closed = FALSE
  /\ sent = <<>>
  /\ sent_by = <<>>
  /\ input = <<>>
  /\ output = <<>>
  /\ dns = <<>>
  /\ rtc = [queue |-> <<>>, waiters |-> <<>>, listening |-> TRUE, opening |-> TRUE,
            arrived |-> 0, recvs |-> 0, got |-> [r \in Receivers |-> <<>>],
            delivered |-> <<>>, dropped |-> <<>>]

\* a receiver's promise settles with a value
Settle(a, r, value) ==
  [a EXCEPT !.got[r] = Append(@, value),
            !.delivered = IF value = Null THEN @ ELSE Append(@, value)]

\* `while (this._waiters.length > 0) this._waiters.shift()!(null)`
RECURSIVE resolve_waiters(_)
resolve_waiters(a) ==
  IF a.waiters = <<>> THEN a
  ELSE resolve_waiters(Settle([a EXCEPT !.waiters = Tail(@)], Head(a.waiters), Null))

\* a handler that leaves the waiters pending (faulty variant)
onClose_silent(a) == a

\* _onClose, as far as the waiters go
onClose(a) == resolve_waiters(a)

\* a handler that queues the newest message first (faulty variant)
onMessage_front(a, data) ==
  IF a.waiters # <<>>
  THEN Settle([a EXCEPT !.waiters = Tail(@)], Head(a.waiters), data)
  ELSE [a EXCEPT !.queue = <<data>> \o @]

\* _onMessage: the first waiter gets the message, else it is queued
onMessage(a, data) ==
  IF a.waiters # <<>>
  THEN Settle([a EXCEPT !.waiters = Tail(@)], Head(a.waiters), data)
  ELSE [a EXCEPT !.queue = Append(@, data)]

\* _getNext for receiver r: the head of the queue, null once closed, else a
\* new waiter
getNext(a, closed, r) ==
  IF a.queue # <<>> THEN Settle([a EXCEPT !.queue = Tail(@)], r, Head(a.queue))
  ELSE IF closed THEN Settle(a, r, Null)
  ELSE [a EXCEPT !.waiters = Append(@, r)]

\* the channel opens: handleOpen of the pending connect() sets connected,
\* unless an error event has removed the handlers of connect() before
RtcOpen ==
  /\ chan = "connecting"
  /\ chan' = "open"
  /\ connected' = rtc.opening
  /\ rtc' = [rtc EXCEPT !.opening = FALSE]
  /\ UNCHANGED <<connVars, requestQueue, ws_closed, sent, sent_by, input, output, dns>>

\* a message arrives on the open channel
RtcMessage ==
  /\ chan = "open"
  /\ rtc.listening
  /\ rtc.arrived < MaxArrivals
  /\ rtc' = onMessage([rtc EXCEPT !.arrived = @ + 1], rtc.arrived + 1)
  /\ UNCHANGED <<connVars, requestQueue, chan, connected, ws_closed, sent, sent_by, input, output, dns>>

\* receiver r, not waiting, calls recv() (or its iteration asks for the next)
Recv(r) ==
  /\ rtc.recvs < MaxRecvs
  /\ \A i \in 1..Len(rtc.waiters) : rtc.waiters[i] # r
  /\ rtc' = getNext([rtc EXCEPT !.recvs = @ + 1], ws_closed, r)
  /\ UNCHANGED <<connVars, requestQueue, chan, connected, ws_closed, sent, sent_by, input, output, dns>>

\* the channel closes: its close event runs handleClose of a pending
\* connect(), and _onClose if still attached
RtcClose ==
  /\ chan \in {"connecting", "open", "closing"}
  /\ chan' = "closed"
  /\ IF rtc.listening
     THEN /\ connected' = FALSE
          /\ ws_closed' = TRUE
          /\ rtc' = onClose([rtc EXCEPT !.opening = FALSE])
     ELSE /\ rtc' = [rtc EXCEPT !.opening = FALSE]
          /\ UNCHANGED <<connected, ws_closed>>
  /\ UNCHANGED <<connVars, requestQueue, sent, sent_by, input, output, dns>>

\* an error event: _onError closes the adapter only while not connected;
\* handleError of a pending connect() removes the handlers of connect()
RtcError ==
  /\ chan \in {"connecting", "open"}
  /\ rtc.listening
  /\ IF ~connected
     THEN ws_closed' = TRUE /\ rtc' = resolve_waiters([rtc EXCEPT !.opening = FALSE])
     ELSE UNCHANGED <<ws_closed, rtc>>
  /\ UNCHANGED <<connVars, requestQueue, chan, connected, sent, sent_by, input, output, dns>>

\* the owner calls close(): channel.close() unless closing or closed, then
\* _cleanup removes the listeners, empties the queue and resolves the waiters
RtcLocalClose ==
  /\ rtc.listening
  /\ chan' = IF chan \in {"closing", "closed"} THEN chan ELSE "closing"
  /\ ws_closed' = TRUE
  /\ rtc' = resolve_waiters([rtc EXCEPT !.listening = FALSE,
                                        !.dropped = rtc.queue,
                                        !.queue = <<>>])
  /\ UNCHANGED <<connVars, requestQueue, connected, sent, sent_by, input, output, dns>>

RecvNext ==
  \/ RtcOpen
  \/ RtcMessage
  \/ \E r \in Receivers : Recv(r)
  \/ RtcClose
  \/ RtcError
  \/ RtcLocalClose

RecvSpec == RecvInit /\ [][RecvNext]_vars

\* the messages 1..n in the order of their arrival
Arrivals(n) == [i \in 1..n |-> i]

\* what a receiver has been handed, without the nulls
Messages(r) == SelectSeq(rtc.got[r], LAMBDA v : v # Null)

\* C27 as it is stated: every message that has arrived has been returned
\* by recv() or waits in the queue to be returned, in arrival order and
\* each once.
C27_EachMessageOnce == rtc.delivered \o rtc.queue = Arrivals(rtc.arrived)

\* C27, amended: recv() returns messages in arrival order and each at most
\* once; a message that has arrived has been returned, waits in the queue,
\* or was in the queue when the owner called close(), which discards the
\* queue (no message is discarded otherwise, and none arrives at the
\* adapter afterwards); each receiver is handed its messages in arrival
\* order; a receiver gets null only after the adapter has closed; once the
\* adapter has closed no receiver is left waiting, and a recv() on the
\* closed adapter with an empty queue returns null at once.
C27_OrderedReceive ==
  /\ [](/\ rtc.delivered \o rtc.dropped \o rtc.queue = Arrivals(rtc.arrived)
        /\ rtc.dropped # <<>> => ~rtc.listening /\ rtc.queue = <<>>
        /\ \A r \in Receivers :
             /\ \A i, j \in 1..Len(Messages(r)) : i < j => Messages(r)[i] < Messages(r)[j]
             /\ \A i \in 1..Len(rtc.got[r]) : rtc.got[r][i] = Null => ws_closed
        /\ ws_closed => rtc.waiters = <<>>
        /\ rtc.waiters # <<>> => rtc.queue = <<>>)
  /\ [][\A r \in Receivers :
          (rtc'.recvs = rtc.recvs + 1 /\ Len(rtc'.got[r]) > Len(rtc.got[r])
             /\ ws_closed /\ rtc.queue = <<>>)
            => rtc'.got[r] = Append(rtc.got[r], Null)]_vars

\* both receivers were waiting, the first got message 1 and the second
\* message 2; message 3 was queued and read after the channel had closed,
\* and the next recv() returned null
C27_Witness ==
  /\ rtc.got[1] = <<1, 3, Null>>
  /\ rtc.got[2] = <<2>>
  /\ chan = "closed"
  /\ rtc.listening

(***************************************************************************)
(* Backpressure of send().                                                 *)
(***************************************************************************)
\* pump p calls send() in this step
Sends(p) == rtc'.taken[p] = rtc.taken[p] + 1

\* what ends the wait of a throttled send
MayResume == rtc.bufferedAmount <= bufferLowThreshold \/ chan # "open"

\* C28: a send() that leaves bufferedAmount above the high watermark
\* (32 MiB) stays suspended, and a suspended send completes only when
\* bufferedAmount is at most the low watermark (half of the high one) or the
\* channel is no longer open; a send() on a channel that is not open fails
\* without enqueueing its payload; and a suspended send does complete once
\* one of the two holds: it never stays suspended for ever while it may
\* resume.
C28_Backpressure ==
  /\ [][\A p \in Pumps :
          /\ (Sends(p) /\ chan = "open" /\ rtc'.bufferedAmount > send_buffer_size)
               => rtc'.pc[p] = "throttle"
          /\ (rtc.pc[p] = "throttle" /\ rtc'.pc[p] # "throttle") => MayResume
          /\ (Sends(p) /\ chan # "open")
               => /\ rtc'.pc[p] = "failed"
                  /\ sent' = sent
                  /\ rtc'.bufferedAmount = rtc.bufferedAmount]_vars
  /\ \A p \in Pumps : []<>~(rtc.pc[p] = "throttle" /\ MayResume)

\* a send was suspended above the high watermark and is still suspended now
\* that the open channel has drained to the low watermark
C28_Witness ==
  /\ rtc.pc[1] = "throttle"
  /\ rtc.bufferedAmount = bufferLowThreshold
  /\ chan = "open"

(***************************************************************************)
(* parse_extensions applied on its own (src/server/extensions.ts).  input  *)
(* is the extension list of an INFO payload, output what the function      *)
(* returned for it.                                                        *)
(***************************************************************************)
\* one record: an identifier (UDP, MOTD, unknown), a declared length, and
\* the bytes that follow, which may be fewer or more than declared
ExtRecords ==
  {setUint(1, id) \o setUint(4, n) \o bytes :
     id \in {UDP_EXT, MOTD_EXT, 9}, n \in 0..3, bytes \in {<<>>, <<7>>, <<7, 8>>}}

\* extension lists: up to two records, or a record and a fragment of a header
ExtBuffers ==
  {<<>>} \cup ExtRecords
    \cup {r \o t : r \in ExtRecords, t \in ExtRecords}
    \cup {r \o f : r \in ExtRecords, f \in {<<1>>, <<4, 0, 0, 0>>}}

ExtInit ==
  /\ requestQueue = <<>>
  /\ NoConnection
  /\ chan = "open"
  /\ connected = TRUE
  /\ ws_closed = FALSE
  /\ sent = <<>>
  /\ sent_by = <<>>
  /\ input \in ExtBuffers
  /\ output = <<>>
  /\ rtc = <<>>
  /\ dns = <<>>

\* parse_extensions(payload.extensions, valid_extensions, "client")
ExtApply ==
  /\ output = <<>>
  /\ output' = <<parse_extensions(input, {UDP_EXT, MOTD_EXT})>>
  /\ UNCHANGED <<connVars, requestQueue, chan, connected, ws_closed, sent, sent_by, input, rtc, dns>>

ExtNext == ExtApply

ExtSpec == ExtInit /\ [][ExtNext]_vars

\* every record of the buffer has its 5-byte header and the bytes it declares
RECURSIVE RecordsComplete(_)
RecordsComplete(b) ==
  \/ b = <<>>
  \/ /\ Len(b) >= 5
     /\ 5 + getUint(b, 1, 4) <= Len(b)
     /\ RecordsComplete(SubSeq(b, 6 + getUint(b, 1, 4), Len(b)))

\* C29: parse_extensions rejects every extension list in which a record
\* declares more bytes than remain in the buffer, or in which fewer than the
\* five bytes of a header remain; it never accepts such a record with a
\* truncated payload.
C29_TruncatedRecordRejected ==
  output # <<>> => (~RecordsComplete(input) => ~output[1].ok)

\* the part the code keeps: a trailing fragment of a header is rejected
FragmentRejected ==
  (/\ output # <<>>
   /\ \E r \in ExtRecords, f \in {<<1>>, <<4, 0, 0, 0>>} :
        RecordsComplete(r) /\ input = r \o f)
    => ~output[1].ok

(***************************************************************************)
(* Packet round trip (src/server/packet.ts).  input is a packet, output    *)
(* its serialized bytes and what parse_all made of them.                   *)
(***************************************************************************)
\* the largest stream id and CONTINUE value of these packets: 2^31 - 1
MaxU32Probe == 2147483647

RoundTripIds == {0, 1, 255, 256, 65535, 65536, 16777216, MaxU32Probe}

\* hostnames: empty, ASCII, characters of two, three and four bytes, and
\* one that begins with U+FEFF
RoundTripHostnames ==
  {<<>>, HostA, <<97, 46, 98>>, HostLoop, <<233>>, <<8364, 97>>, <<128512>>, <<65279, 97>>}

RoundTripPayloads(type) ==
  CASE type = T_CONNECT ->
         [stream_type : {TCP, UDP}, port : {0, 80, 255, 256, 65535},
          hostname : RoundTripHostnames]
    [] type = T_DATA -> [data : {<<>>, <<0>>, <<255, 0, 1>>}]
    [] type = T_CONTINUE -> [buffer_remaining : {0, 128, 65536, MaxU32Probe}]
    [] type = T_CLOSE -> [reason : 0..255]
    [] type = T_INFO ->
         [major_ver : {1, 2, 255}, minor_ver : {0, 255},
          extensions : {<<>>, Extension_serialize(UDP_EXT), <<4, 1>>}]

RoundTripPackets ==
  UNION {[type : {type}, stream_id : RoundTripIds, payload : RoundTripPayloads(type)] :
           type \in packet_classes}

PacketInit ==
  /\ requestQueue = <<>>
  /\ NoConnection
  /\ chan = "open"
  /\ connected = TRUE
  /\ ws_closed = FALSE
  /\ sent = <<>>
  /\ sent_by = <<>>
  /\ input \in RoundTripPackets
  /\ output = <<>>
  /\ rtc = <<>>
  /\ dns = <<>>

\* WispPacket.parse_all(packet.serialize())
PacketApply ==
  /\ output = <<>>
  /\ LET bytes == WispPacket_serialize(input) IN
       output' = <<bytes, WispPacket_parse_all(bytes)>>
  /\ UNCHANGED <<connVars, requestQueue, chan, connected, ws_closed, sent, sent_by, input, rtc, dns>>

PacketNext == PacketApply

PacketSpec == PacketInit /\ [][PacketNext]_vars

\* byte k (from 0) of the little-endian form of v
LEByte(v, k) == (v \div Pow256(k)) % 256

\* C30: parse_all(packet.serialize()) succeeds and yields the type, the
\* stream id and the payload fields of the packet, for each of the five
\* types, every close reason code, both stream kinds, port 0 and a DATA
\* payload of length zero included; the stream id (bytes 1..4), the port of a
\* CONNECT and the value of a CONTINUE are on the wire least significant byte
\* first.
C30_RoundTrip ==
  output # <<>> =>
    LET bytes == output[1]
        parsed == output[2]
    IN /\ parsed.ok
       /\ parsed.type = input.type
       /\ parsed.stream_id = input.stream_id
       /\ parsed.payload = input.payload
       /\ bytes[1] = input.type
       /\ \A k \in 0..3 : bytes[2 + k] = LEByte(input.stream_id, k)
       /\ input.type = T_CONNECT =>
            \A k \in 0..1 : bytes[7 + k] = LEByte(input.payload.port, k)
       /\ input.type = T_CONTINUE =>
            \A k \in 0..3 : bytes[6 + k] = LEByte(input.payload.buffer_remaining, k)


\* the entry a call of lookup_ip finds for a hostname once the stale entries
\* are gone
Kept(h) == evict_stale(dns.cache, dns.now)[h]

\* a call of lookup_ip for hostname h returns or reaches the resolver
Looked(h) == dns'.calls = dns.calls + 1 /\ dns'.asked = h

\* C31: a failed resolution is stored under the hostname and raised; while
\* the entry is not evicted, a later lookup_ip of the hostname raises the
\* stored error, or returns the stored address, without a new resolution; a
\* literal address is returned as it is and leaves the cache alone.
C31_NegativeCaching ==
  [][/\ \A h \in DnsNames :
          /\ (dns'.settled = dns.settled + 1 /\ dns'.last.hostname = h
                /\ dns'.last.kind = "error") =>
               /\ dns'.cache[h].kind = "error"
               /\ dns'.cache[h].value = dns'.last.value
               /\ dns'.cache[h].time = dns.now
               /\ dns'.last.from = "resolver"
          /\ (Looked(h) /\ Kept(h).kind # "none") =>
               /\ dns'.resolutions = dns.resolutions
               /\ dns'.pending = dns.pending
               /\ dns'.last = [hostname |-> h, from |-> "cache",
                               kind |-> Kept(h).kind, value |-> Kept(h).value,
                               age |-> dns.now - Kept(h).time]
               /\ dns'.cache[h] = Kept(h)
     /\ Looked(HostLoop) =>
          /\ dns'.last.from = "literal"
          /\ dns'.last.hostname = HostLoop
          /\ dns'.cache = dns.cache
          /\ dns'.resolutions = dns.resolutions
          /\ dns'.pending = dns.pending]_vars

(***************************************************************************)
(* Silence after teardown.                                                 *)
(***************************************************************************)
\* the stream objects created under a stream id, and the newest of them
ObjsOf(sid) == {o \in Objs : objs[o].stream_id = sid}
Newest(sid) == CHOOSE o \in ObjsOf(sid) : \A p \in ObjsOf(sid) : p <= o

\* the newest stream opened under the id has been torn down: by a CLOSE of
\* the client, by cleanup(), or with a CLOSE packet of the server
TornDown(sid) ==
  /\ ObjsOf(sid) # {}
  /\ LET o == Newest(sid) IN
       /\ objs[o].closed
       /\ objs[o].cause \in {"client", "cleanup"} \/ Closes(o) # {}

\* the stream id of a packet on the carrier
SentId(m) == WispPacket_parse_all(m).stream_id

\* C32: once a stream has been torn down, the server emits no DATA and no
\* CONTINUE packet with its stream id until a CONNECT opens a new stream
\* under that id.
C32_SilentAfterTeardown ==
  [][\A sid \in TableIds :
       TornDown(sid) =>
         \A i \in (Len(sent) + 1)..Len(sent') :
           ~(sent'[i][1] \in {T_DATA, T_CONTINUE} /\ SentId(sent'[i]) = sid)]_vars

(***************************************************************************)
(* No socket for a stream that is gone.                                    *)
(***************************************************************************)
\* a CLOSE of the client or cleanup() has closed the stream o
ClosedFromOutside(o) == objs[o].closed /\ objs[o].cause \in {"client", "cleanup"}

\* the background task of o is still in the policy check (with its DNS
\* lookup), in the lookup of socket.connect() or in the connect itself
InSetup(o) == objs[o].setup_pc \in {"policy", "lookup", "connecting"}

\* C33: the background task of a stream that a client CLOSE or cleanup()
\* closed during its policy check, lookup or connect neither connects the
\* socket nor starts the pumps, and once cleanup() has completed no socket
\* of the connection is connecting or open.
C33_NoSocketAfterTeardown ==
  /\ [](conn_pc = "done" =>
          \A o \in Objs : objs[o].sock \notin {"connecting", "open"})
  /\ [][\A o \in Objs :
          (ClosedFromOutside(o) /\ InSetup(o)) =>
            /\ objs'[o].sock \notin {"connecting", "open"}
            /\ objs'[o].t2w_pc # "iter"
            /\ objs'[o].w2t_pc # "iter"]_vars

(***************************************************************************)
(* One live stream per stream id.                                          *)
(***************************************************************************)
\* the socket of o is connecting or open, or one of its pumps runs
Running(o) ==
  \/ objs[o].sock \in {"connecting", "open"}
  \/ objs[o].t2w_pc \in {"iter", "send", "send_error"}
  \/ objs[o].w2t_pc = "iter"

\* the step leaves the table entries of the other stream objects alone
OnlyOwnEntry(o) ==
  \A sid \in TableIds : streams[sid] # o => streams'[sid] = streams[sid]

\* C34: no stream that is not terminal has its socket or its pumps running
\* while the table does not hold it under its id; a close_stream that
\* resumes after its send, and a pump whose socket has ended, remove the
\* table entry of their own stream only and close no other stream.
C34_OneLiveStreamPerId ==
  /\ [](\A o \in Objs : (~objs[o].closed /\ Running(o)) => Registered(o))
  /\ [][/\ \A c \in calls : (CloseResume(c) \/ CloseSent(c)) => OnlyOwnEntry(c.o)
        /\ \A o \in Objs :
             T2WEnd(o, "fin") =>
               /\ OnlyOwnEntry(o)
               /\ \A p \in Objs \ {o} : objs'[p].closed = objs[p].closed]_vars

\* the parts of C34 on their own
C34_NoOrphan == \A o \in Objs : (~objs[o].closed /\ Running(o)) => Registered(o)
C34_CloseSentOwnEntry ==
  [][\A c \in calls : (CloseResume(c) \/ CloseSent(c)) => OnlyOwnEntry(c.o)]_vars
C34_PumpEndOwnStream ==
  [][\A o \in Objs :
       T2WEnd(o, "fin") =>
         /\ OnlyOwnEntry(o)
         /\ \A p \in Objs \ {o} : objs'[p].closed = objs[p].closed]_vars

(***************************************************************************)
(* RequestQueue of the client transport (src/client/transport.ts).         *)
(* requestQueue holds queue (the wrappers pushed by enqueue, each named by *)
(* the number of its enqueue call), processing, the tasks whose fn() is in *)
(* flight (running), the tasks whose `await task()` has resolved while the *)
(* loop of process() has not resumed yet (resumable), and a record of what *)
(* happened: the number of enqueue calls, the order in which tasks         *)
(* started, whether a task was enqueued while another was being processed  *)
(* (waited), and what each enqueue() promise settled with.  The fn of the  *)
(* i-th enqueue call returns the value i or throws the error i.            *)
(***************************************************************************)
\* calls of enqueue in one run
MaxTasks == 4

Tasks == 1..MaxTasks
Unsettled == [kind |-> "pending", value |-> 0]

QueueInit ==
  /\ NoConnection
  /\ chan = "open"
  /\ connected = TRUE
  /\ ws_closed = FALSE
  /\ sent = <<>>
  /\ sent_by = <<>>
  /\ input = <<>>
  /\ output = <<>>
  /\ rtc = <<>>
  /\ dns = <<>>
  /\ requestQueue = [queue |-> <<>>, processing |-> FALSE, running |-> {},
                     resumable |-> {}, enqueued |-> 0, started |-> <<>>,
                     waited |-> [i \in Tasks |-> FALSE],
                     settled |-> [i \in Tasks |-> Unsettled]]

\* a queue that hands out its newest task (faulty variant)
queue_shift_newest(queue) ==
  [task |-> queue[Len(queue)], queue |-> SubSeq(queue, 1, Len(queue) - 1)]

\* this.queue.shift()
queue_shift(queue) == [task |-> Head(queue), queue |-> Tail(queue)]

\* the loop of process() from its test up to `await task()` or to its end:
\* the next task is taken and its fn() called, or processing is reset
process_loop(q) ==
  IF Len(q.queue) > 0
  THEN LET next == queue_shift(q.queue) IN
       [q EXCEPT !.queue = next.queue,
                 !.running = @ \cup {next.task},
                 !.started = Append(@, next.task)]
  ELSE [q EXCEPT !.processing = FALSE]

\* process() up to its first suspension
process(q) ==
  IF q.processing \/ Len(q.queue) = 0 THEN q
  ELSE process_loop([q EXCEPT !.processing = TRUE])

\* enqueue(fn): the wrapper of fn is pushed and process() called
Enqueue ==
  /\ requestQueue.enqueued < MaxTasks
  /\ LET i == requestQueue.enqueued + 1 IN
       requestQueue' = process([requestQueue EXCEPT !.queue = Append(@, i),
                                                    !.enqueued = i,
                                                    !.waited[i] = requestQueue.processing])
  /\ UNCHANGED <<connVars, chan, connected, ws_closed, sent, sent_by, input, output, rtc, dns>>

\* fn() of task i settles: its wrapper resolves the promise of its enqueue
\* call with the result, or rejects it with the error, and returns
TaskDone(i, kind) ==
  /\ i \in requestQueue.running
  /\ requestQueue' = [requestQueue EXCEPT !.running = @ \ {i},
                                          !.resumable = @ \cup {i},
                                          !.settled[i] = [kind |-> kind, value |-> i]]
  /\ UNCHANGED <<connVars, chan, connected, ws_closed, sent, sent_by, input, output, rtc, dns>>

\* process() resumes after `await task()` of task i
ProcessResume(i) ==
  /\ i \in requestQueue.resumable
  /\ requestQueue' = process_loop([requestQueue EXCEPT !.resumable = @ \ {i}])
  /\ UNCHANGED <<connVars, chan, connected, ws_closed, sent, sent_by, input, output, rtc, dns>>

QueueNext ==
  \/ Enqueue
  \/ \E i \in Tasks : \E kind \in {"resolved", "rejected"} : TaskDone(i, kind)
  \/ \E i \in Tasks : ProcessResume(i)

QueueSpec == QueueInit /\ [][QueueNext]_vars

\* every fn() terminates and every continuation that is due runs
QueueLiveSpec ==
  /\ QueueSpec
  /\ \A i \in Tasks :
       /\ WF_vars(\E kind \in {"resolved", "rejected"} : TaskDone(i, kind))
       /\ WF_vars(ProcessResume(i))

\* C35: at most one task of the RequestQueue runs at a time, tasks start in
\* the order of their enqueue calls, the promise of an enqueue call settles
\* only with the result or the error of its own task, once that task has
\* run, and every enqueued task is eventually run and its promise settled.
C35_RequestQueueSerial ==
  /\ [](/\ Cardinality(requestQueue.running) <= 1
        /\ \A k \in 1..Len(requestQueue.started) : requestQueue.started[k] = k
        /\ \A i \in Tasks :
             requestQueue.settled[i] # Unsettled =>
               /\ requestQueue.settled[i].value = i
               /\ \E k \in 1..Len(requestQueue.started) : requestQueue.started[k] = i
               /\ i \notin requestQueue.running)
  /\ \A i \in Tasks :
       (requestQueue.enqueued >= i) ~> (requestQueue.settled[i] # Unsettled)

\* the first task failed, the second was enqueued while the first was
\* running and has returned its result, and the third, enqueued after the
\* queue had run empty, is running
C35_Witness ==
  /\ requestQueue.settled[1] = [kind |-> "rejected", value |-> 1]
  /\ requestQueue.waited[2]
  /\ requestQueue.settled[2] = [kind |-> "resolved", value |-> 2]
  /\ ~requestQueue.waited[3]
  /\ requestQueue.running = {3}
====
